---- MODULE Spec2Model ----
(***************************************************************************)
(* A model of the weather-station repository's ingestion pipeline:         *)
(*   - ingest.py: the MQTT message callback (handle), the staging buffer   *)
(*     guarded by buf_lock, and the poll loop that drains the buffer and   *)
(*     writes the partitioned batch to the store;                          *)
(*   - WeatherDatabase.insert_batch and CentralReceiver._process_batch.    *)
(*   - MQTTwrapper.py: MQTTReceiver._internal_on_message on payloads that  *)
(*     raise, and MQTTSender.send_message;                                 *)
(*   - station_sender.py: start, the measurement thread, the batch         *)
(*     thread, _send_batch and stop of MeasurementSender;                  *)
(*   - WeatherDatabase.py: the inserts, delete_readings_older_than and     *)
(*     get_readings_in_time_range called directly;                         *)
(*   - measurement/measurement_system.py: the threads and stop of          *)
(*     MeasurementSystem;                                                  *)
(*   - sender.py: main; central_receiver.py: _on_message;                  *)
(*   - app.py: api_readings over the merged read view;                     *)
(*   - ingest.py: the poll loop running forever, under fairness;           *)
(*   - station_sender.py, measurement/measure.py: main's second call of    *)
(*     stop;                                                               *)
(*   - station_sender.py: _take_readings, measurement_system.py:           *)
(*     _take_reading over the values the sensors return.                   *)
(* Python's None is the string "None"; metric values and identifiers are   *)
(* strings.  A dict is a record holding every key the code reads, with     *)
(* None for an absent key (the code reads dicts through .get()).           *)
(***************************************************************************)
EXTENDS Integers, Sequences, FiniteSets, TLC

None == "None"

\* The elements of the sequence q.
Range(q) == { q[i] : i \in DOMAIN q }

\* ------------------------------------------------------------------ bounds

\* Payloads delivered to _internal_on_message in one run.
MaxMsgs == 2

\* The last clock value the poll loop samples, in poll periods
\* (ingest.py:67, time.sleep(0.05)).
MaxTime == 2

\* Readings in one batch message of the central receiver.
MaxReadings == 2

\* Messages the central receiver processes in one run.
MaxCalls == 2

\* ------------------------------------------------------- program constants

\* ingest.py:16  os.getenv("INGEST_FLUSH_INTERVAL", "0")
DefaultFlushInterval == 0

\* ingest.py:17  os.getenv("INGEST_FLUSH_BATCH", "1")
DefaultFlushBatch == 1

\* float("inf") as INGEST_FLUSH_INTERVAL: larger than every elapsed time.
Infinity == MaxTime + 1

\* A batch size no buffer of the run reaches.
HugeBatch == 2 * MaxMsgs + 1

\* The values INGEST_FLUSH_INTERVAL takes in the model.
FlushEveryValues == {-1, DefaultFlushInterval, 2, Infinity}

\* The values INGEST_FLUSH_BATCH takes in the model.
FlushBatchValues == {0, DefaultFlushBatch, 2, HugeBatch}

\* ---------------------------------------------------------------- messages

\* One element of msg["measurements"].
Measurement(isdict, type, value, sensor_id) ==
    [isdict |-> isdict, type |-> type, value |-> value, sensor_id |-> sensor_id]

\* A decoded inbound payload.  hasList: "measurements" is a key of the payload
\* and its value is a list (ingest.py:30).
Message(station_id, sensor_id, t, tsid, h, hsid, ms, hasList) ==
    [station_id |-> station_id, sensor_id |-> sensor_id,
     temperature |-> t, temperature_sensor_id |-> tsid,
     humidity |-> h, humidity_sensor_id |-> hsid,
     timestamp |-> "ts", measurements |-> ms, hasList |-> hasList]

\* Flat readings: both metrics, or neither.
FlatMessages ==
    { Message("st", None, "21.5", None, "40", None, <<>>, FALSE),
      Message("st", None, None, None, None, None, <<>>, FALSE) }

\* Measurement lists: a temperature and a humidity; a temperature with no
\* value beside an entry of another type and an entry that is no dict.
ListMessages ==
    { Message("st", None, None, None, None, None, ms, TRUE) :
        ms \in { << Measurement(TRUE, "temperature", "21.5", None),
                    Measurement(TRUE, "humidity", "40", "bme") >>,
                 << Measurement(TRUE, "pressure", "1000", None),
                    Measurement(TRUE, "temperature", None, None),
                    Measurement(FALSE, None, None, None) >> } }

Messages == FlatMessages \cup ListMessages

\* ------------------------------------------------------------- ingest.py

\* An `or` that keeps its left operand.
OrFirst(a, b) == a

\* Python's `a or b`: b when a is None or empty.
Or(a, b) == IF a = None \/ a = "" THEN b ELSE a

\* A buffer entry.  uid is the message number and the position in it.
Row(uid, station_id, mtype, value, sensor_id, t, tsid, h, hsid, ts) ==
    [uid |-> uid, station_id |-> station_id, measurement_type |-> mtype,
     value |-> value, sensor_id |-> sensor_id,
     temperature |-> t, temperature_sensor_id |-> tsid,
     humidity |-> h, humidity_sensor_id |-> hsid, timestamp |-> ts]

\* ingest.py:32-44: the rows of a measurement list.
RECURSIVE MeasurementRows(_, _, _, _)
MeasurementRows(msg, ms, n, i) ==
    IF ms = <<>> THEN <<>>
    ELSE LET m == Head(ms)
             rest == MeasurementRows(msg, Tail(ms), n, i + 1)
         IN IF ~m.isdict THEN rest
            ELSE IF m.type \notin {"temperature", "humidity"} THEN rest
            ELSE << Row(<<n, i>>, msg.station_id, m.type, m.value,
                        Or(m.sensor_id, msg.station_id),
                        None, None, None, None, msg.timestamp) >> \o rest

\* ingest.py:48-56: the single row of a flat message.
FlatRow(msg, n) ==
    Row(<<n, 1>>, msg.station_id, None, None, None,
        msg.temperature,
        Or(msg.temperature_sensor_id, Or(msg.sensor_id, msg.station_id)),
        msg.humidity,
        Or(msg.humidity_sensor_id, Or(msg.sensor_id, msg.station_id)),
        msg.timestamp)

\* ingest.py:26-58: what handle appends for message number n.
HandleRows(msg, n) ==
    IF msg.hasList THEN MeasurementRows(msg, msg.measurements, n, 1)
    ELSE << FlatRow(msg, n) >>

\* A row handed to the store.
StoreRow(uid, station_id, sensor_id, value, ts) ==
    [uid |-> uid, station_id |-> station_id, sensor_id |-> sensor_id,
     value |-> value, timestamp |-> ts]

\* A partition that builds the temperature sub-batch back to front.
RECURSIVE PartitionTempsReversed(_)
PartitionTempsReversed(b) ==
    IF b = <<>> THEN <<>>
    ELSE LET r == Head(b)
             rest == PartitionTempsReversed(Tail(b))
         IN IF r.measurement_type = "temperature"
            THEN rest \o << StoreRow(r.uid, r.station_id, r.sensor_id, r.value, r.timestamp) >>
            ELSE IF r.measurement_type = "humidity" THEN rest
            ELSE IF r.temperature # None
            THEN rest \o << StoreRow(r.uid, r.station_id, r.temperature_sensor_id,
                                     r.temperature, r.timestamp) >>
            ELSE rest

\* ingest.py:83-95: the temperature sub-batch.
RECURSIVE PartitionTemps(_)
PartitionTemps(b) ==
    IF b = <<>> THEN <<>>
    ELSE LET r == Head(b)
             rest == PartitionTemps(Tail(b))
         IN IF r.measurement_type = "temperature"
            THEN << StoreRow(r.uid, r.station_id, r.sensor_id, r.value, r.timestamp) >> \o rest
            ELSE IF r.measurement_type = "humidity" THEN rest
            ELSE IF r.temperature # None
            THEN << StoreRow(r.uid, r.station_id, r.temperature_sensor_id,
                             r.temperature, r.timestamp) >> \o rest
            ELSE rest

\* ingest.py:83-95: the humidity sub-batch.
RECURSIVE PartitionHums(_)
PartitionHums(b) ==
    IF b = <<>> THEN <<>>
    ELSE LET r == Head(b)
             rest == PartitionHums(Tail(b))
         IN IF r.measurement_type = "temperature" THEN rest
            ELSE IF r.measurement_type = "humidity"
            THEN << StoreRow(r.uid, r.station_id, r.sensor_id, r.value, r.timestamp) >> \o rest
            ELSE IF r.humidity # None
            THEN << StoreRow(r.uid, r.station_id, r.humidity_sensor_id,
                             r.humidity, r.timestamp) >> \o rest
            ELSE rest

VARIABLES
    flush_every_s,  \* ingest.py:16
    flush_batch,    \* ingest.py:17
    buffer,         \* ingest.py:22
    buf_lock,       \* ingest.py:23: "free", "producer" or "scheduler"
    last_flush,     \* ingest.py:24
    now,            \* ingest.py:68
    flush_now,      \* ingest.py:69
    batch,          \* ingest.py:78
    temps,          \* ingest.py:81
    hums,           \* ingest.py:82
    count_t,        \* ingest.py:97
    count_h,        \* ingest.py:98
    sched_pc,       \* where the poll loop stands
    prod_pc,        \* where handle stands: "idle" or "locked"
    prod_rows,      \* the rows handle is about to append
    nmsgs,          \* payloads delivered to _internal_on_message so far
    ncallbacks,     \* history: times on_message_callback (handle) was invoked
    nmalformed,     \* history: payloads that were not valid JSON
    nraised,        \* history: payloads on which the callback raised
    temp_table,     \* the store's temperature series
    hum_table,      \* the store's humidity series
    accepted,       \* history: every row appended to the buffer, in order
    drained,        \* history: every row a completed drain returned, in order
    bufAtLock,      \* history: the buffer when the scheduler last took buf_lock
    pendingWrites,  \* history: bulk inserts of the current batch not yet attempted
    res_t,          \* history: outcome of the current batch's insert_temps_bulk
    res_h,          \* history: outcome of the current batch's insert_hums_bulk
    handed_t,       \* history: every row passed to insert_temps_bulk, in order
    handed_h,       \* history: every row passed to insert_hums_bulk, in order
    pendingAtStop,  \* history: the buffer when the poll loop was interrupted
    ds18b20_readings,  \* WeatherDatabase.py:18-23: the table's rows, by id
    bme280_readings,   \* WeatherDatabase.py:27-33: the table's rows, by id
    message_count,     \* central_receiver.py:39: _message_count
    readings_count,    \* central_receiver.py:40: _readings_count
    ret_counts,        \* the pair insert_batch last returned
    rows_before,       \* history: the tables' sizes when insert_batch was last called
    norm_msg,          \* the message one run of handle and partition is given
    norm_pc,           \* that run's position: "ready", "handled", "partitioned"
    norm_rows,         \* what handle appended for norm_msg
    norm_temps,        \* ingest.py:81: temps of the batch norm_rows
    norm_hums,         \* ingest.py:82: hums of the batch norm_rows
    reading_queue,     \* station_sender.py:61: _reading_queue, reading ids in order
    stop_event,        \* station_sender.py:62: _stop_event is set
    sender_readings_count,  \* station_sender.py:66: _readings_count
    batches_sent,      \* station_sender.py:67: _batches_sent
    disconnected,      \* station_sender.py:140: sender.disconnect() was called
    meas_pc,           \* _measurement_loop: "off", "wait", "reading", "put", "done"
    meas_readings,     \* station_sender.py:160: readings still to be put
    batch_pc,          \* _batch_send_loop: "off", "wait", "send_batch", "done"
    main_pc,           \* main thread: "off", "wait", the steps of stop, "stopped"
    sb_pc,             \* _send_batch of each caller: "idle", "check", "get", "send", "requeue"
    sb_readings,       \* station_sender.py:207: readings of each caller's _send_batch
    ntaken,            \* history: readings _take_readings has returned
    published,         \* history: the batches send_message returned True for
    requeued,          \* history: ids of the readings that were put back
    last_send,         \* history: the last send_message call and its result
    store_nops,        \* calls of WeatherDatabase methods made so far
    store_op,          \* history: the last such call and its arguments
    deleted,           \* WeatherDatabase.py:213: the pair delete_readings_older_than returned
    range_result,       \* WeatherDatabase.py:194: the rows get_readings_in_time_range returned
    ms_reading_queue,  \* measurement_system.py:35: _reading_queue
    ms_stop_event,     \* measurement_system.py:38: _stop_event is set
    ms_readings_count, \* measurement_system.py:43: _readings_count
    ms_inserts_count,  \* measurement_system.py:44: _inserts_count
    ms_meas_pc,        \* _measurement_loop: "off", "wait", "reading", "put", "done"
    ms_reading,        \* measurement_system.py:130: the reading still to be put, 0 for none
    ms_batch_pc,       \* _batch_insert_loop: "off", "wait", "flush", "done"
    ms_main_pc,        \* main thread: "off", "wait", the steps of stop, "stopped"
    ms_flush_pc,       \* _flush_queue of each caller: "idle", "check", "get", "insert"
    ms_flush_readings, \* measurement_system.py:169: readings of each caller's _flush_queue
    ms_ntaken,         \* history: readings _take_reading has returned
    ms_inserted,        \* history: the batches passed to _batch_insert_readings
    ms_committed,       \* history: the batches whose insert was committed
    start_pc,          \* MeasurementSender.start: "off", "init_sensors", "connect", "measure_thread", "batch_thread", "returned"
    ds18_ok,           \* station_sender.py:71
    humidity_ok,       \* station_sender.py:78
    connect_called,    \* station_sender.py:101: sender.connect() was called
    connected,         \* station_sender.py:101: what sender.connect() returned
    start_ret,          \* what start returned: "none" before it returns, "True", "False"
    sd_pc,             \* sender.py main: "off", "check", "connect", "read", "send", "sleep", "exited"
    use_bme,           \* sender.py:104
    sd_dht,            \* sender.py:115: init_dht returned a device
    sd_bme,            \* sender.py:116: init_bme280 returned a device
    sd_ds,             \* sender.py:117: init_ds18 returned a device
    sd_tx_created,     \* sender.py:123: the MQTTSender was created
    sd_connect_called, \* sender.py:124: tx.connect() was called
    sd_exit,           \* why main returned: "none", "no_sensors", "connect_failed"
    measurements,      \* sender.py:138
    sd_nsent,           \* history: calls of tx.send_message
    rx_calls,          \* history: calls of CentralReceiver._on_message
    on_message,         \* history: the last such call, its payload and how it ended
    read_pc,           \* api_readings: "off", "ready", "fetched", "done"
    read_temps,        \* the temperature series: the (station_id, timestamp) pairs it has a row for
    read_hums,         \* the humidity series, likewise
    read_station,      \* app.py:64: the station parameter
    read_rows,         \* app.py:74-77: what db.get_readings returned
    read_shaped,        \* app.py:80-90: the readings of the response
    take_calls,        \* history: iterations of the two measurement loops
    take_last,         \* history: the last iteration, its sensor values and result
    sender_queue,      \* MeasurementSender._reading_queue, with the readings' contents
    system_queue       \* MeasurementSystem._reading_queue, with the readings' contents

ingestVars ==
    <<flush_every_s, flush_batch, buffer, buf_lock, last_flush, now, flush_now,
      batch, temps, hums, count_t, count_h, sched_pc, prod_pc, prod_rows, nmsgs,
      temp_table, hum_table, accepted, drained, bufAtLock, pendingWrites,
      res_t, res_h, handed_t, handed_h, pendingAtStop>>

rxVars == <<ncallbacks, nmalformed, nraised>>

dbVars ==
    <<ds18b20_readings, bme280_readings, message_count, readings_count,
      ret_counts, rows_before>>

normVars == <<norm_msg, norm_pc, norm_rows, norm_temps, norm_hums>>

senderVars ==
    <<reading_queue, stop_event, sender_readings_count, batches_sent,
      disconnected, meas_pc,
      meas_readings, batch_pc, main_pc, sb_pc, sb_readings, ntaken, published,
      requeued, last_send>>

storeVars == <<store_nops, store_op, deleted, range_result>>

msysVars ==
    <<ms_reading_queue, ms_stop_event, ms_readings_count, ms_inserts_count,
      ms_meas_pc, ms_reading, ms_batch_pc, ms_main_pc, ms_flush_pc,
      ms_flush_readings, ms_ntaken, ms_inserted,
      ms_committed>>

startVars ==
    <<start_pc, ds18_ok, humidity_ok, connect_called, connected, start_ret>>

mainVars ==
    <<sd_pc, use_bme, sd_dht, sd_bme, sd_ds, sd_tx_created, sd_connect_called,
      sd_exit, measurements, sd_nsent>>

onmsgVars == <<rx_calls, on_message>>

readVars ==
    <<read_pc, read_temps, read_hums, read_station, read_rows, read_shaped>>

takeVars == <<take_calls, take_last, sender_queue, system_queue>>

vars == <<ingestVars, rxVars, dbVars, normVars, senderVars, storeVars, msysVars, startVars, mainVars, onmsgVars, readVars, takeVars>>

\* What the actions of the ingest process leave alone.
outsideIngest == <<dbVars, normVars, senderVars, storeVars, msysVars, startVars, mainVars, onmsgVars, readVars, takeVars>>

\* What the actions of the central receiver leave alone.
outsideReceiver == <<ingestVars, rxVars, normVars, senderVars, storeVars, msysVars, startVars, mainVars, onmsgVars, readVars, takeVars>>

\* What a run of handle and partition on one message leaves alone.
outsideNorm == <<ingestVars, rxVars, dbVars, senderVars, storeVars, msysVars, startVars, mainVars, onmsgVars, readVars, takeVars>>

\* What the station sender's actions leave alone.
outsideSender == <<ingestVars, rxVars, dbVars, normVars, storeVars, msysVars, startVars, mainVars, onmsgVars, readVars, takeVars>>

\* What a direct call of a WeatherDatabase method leaves alone, the tables
\* and the method's own results apart.
outsideStore ==
    <<ingestVars, rxVars, normVars, senderVars, message_count, readings_count, msysVars, startVars, mainVars, onmsgVars, readVars, takeVars>>

\* What the measurement system's actions leave alone.
outsideMeasure ==
    <<ingestVars, rxVars, dbVars, normVars, senderVars, storeVars, startVars, mainVars, onmsgVars, readVars, takeVars>>

\* What start leaves alone of the station sender's state.
senderRunVars ==
    <<reading_queue, sender_readings_count, batches_sent, disconnected,
      meas_readings, sb_pc, sb_readings, ntaken, published, requeued, last_send>>

\* What start leaves alone outside the station sender.
outsideStart ==
    <<ingestVars, rxVars, dbVars, normVars, storeVars, msysVars, mainVars, onmsgVars, readVars, takeVars>>

\* What main of sender.py leaves alone.
outsideMain ==
    <<ingestVars, rxVars, dbVars, normVars, senderVars, storeVars, msysVars,
      startVars, onmsgVars, readVars, takeVars>>

\* What _on_message of the central receiver leaves alone.
outsideOnMessage ==
    <<ingestVars, rxVars, normVars, senderVars, storeVars, msysVars, startVars,
      mainVars, readVars, takeVars>>

\* What the read path leaves alone.
outsideRead ==
    <<ingestVars, rxVars, dbVars, normVars, senderVars, storeVars, msysVars,
      startVars, mainVars, onmsgVars, takeVars>>

\* What taking a reading leaves alone.
outsideTake ==
    <<ingestVars, rxVars, dbVars, normVars, senderVars, storeVars, msysVars,
      startVars, mainVars, onmsgVars, readVars>>

\* ingest.py:13-24: main up to the poll loop, rx.connect(handle) succeeded.
InitIngest ==
    /\ flush_every_s \in FlushEveryValues
    /\ flush_batch \in FlushBatchValues
    /\ buffer = <<>>
    /\ buf_lock = "free"
    /\ last_flush = 0
    /\ now = 0
    /\ flush_now = FALSE
    /\ batch = <<>>
    /\ temps = <<>>
    /\ hums = <<>>
    /\ count_t = 0
    /\ count_h = 0
    /\ sched_pc = "sleep"
    /\ prod_pc = "idle"
    /\ prod_rows = <<>>
    /\ nmsgs = 0
    /\ temp_table = <<>>
    /\ hum_table = <<>>
    /\ accepted = <<>>
    /\ drained = <<>>
    /\ bufAtLock = <<>>
    /\ pendingWrites = 0
    /\ res_t = "none"
    /\ res_h = "none"
    /\ handed_t = <<>>
    /\ handed_h = <<>>
    /\ pendingAtStop = <<>>
    /\ ncallbacks = 0
    /\ nmalformed = 0
    /\ nraised = 0

\* ---------------------------------------------------------- the store

\* insert_temps_bulk / insert_hums_bulk: the table after a bulk insert of rows
\* that succeeds (ok) or fails.
BulkInsert(table, rows, ok) == IF ok THEN table \o rows ELSE table

\* insert_temps_bulk / insert_hums_bulk: the inserted-row count returned.
BulkCount(rows, ok) == IF ok THEN Len(rows) ELSE 0

\* ------------------------------------------------------ handle (producer)

\* A handle that appends without waiting for buf_lock.
ProducerEntersUnlocked == TRUE

\* ingest.py:45, 57: `with buf_lock:` in handle blocks until the lock is free.
ProducerMayEnter == buf_lock = "free"

\* ingest.py:26-45 / 47-57: a message arrives, handle builds its rows and
\* takes buf_lock.
HandleAcquire ==
    /\ prod_pc = "idle"
    /\ sched_pc # "stopped"
    /\ nmsgs < MaxMsgs
    /\ ProducerMayEnter
    /\ \E msg \in Messages : prod_rows' = HandleRows(msg, nmsgs + 1)
    /\ nmsgs' = nmsgs + 1
    /\ ncallbacks' = ncallbacks + 1
    /\ buf_lock' = "producer"
    /\ prod_pc' = "locked"
    /\ UNCHANGED <<flush_every_s, flush_batch, buffer, last_flush, now, flush_now,
                   batch, temps, hums, count_t, count_h, sched_pc, temp_table,
                   hum_table, accepted, drained, bufAtLock, pendingWrites,
                   res_t, res_h,
                   handed_t, handed_h, pendingAtStop>>
    /\ UNCHANGED <<nmalformed, nraised>>
    /\ UNCHANGED outsideIngest

\* ingest.py:46 / 58: buffer.extend(rows) / buffer.append(row), then the
\* with-block releases buf_lock.
HandleAppend ==
    /\ prod_pc = "locked"
    /\ buffer' = buffer \o prod_rows
    /\ accepted' = accepted \o prod_rows
    /\ prod_rows' = <<>>
    /\ buf_lock' = "free"
    /\ prod_pc' = "idle"
    /\ UNCHANGED <<flush_every_s, flush_batch, last_flush, now, flush_now, batch,
                   temps, hums, count_t, count_h, sched_pc, nmsgs, temp_table,
                   hum_table, drained, bufAtLock, pendingWrites, res_t, res_h,
                   handed_t, handed_h, pendingAtStop>>
    /\ UNCHANGED rxVars
    /\ UNCHANGED outsideIngest

\* ------------------------------------- _internal_on_message (bad payloads)

\* Payloads on which _internal_on_message raises: text that is not valid
\* JSON, and valid JSON that is not an object (handle's msg.get raises).
BadPayloads == {"malformed", "nondict"}

\* A receiver that hands every payload to the callback.
CallbackGetsEveryPayload(kind) == TRUE

\* MQTTwrapper.py:78-81: json.loads raises on a malformed payload before the
\* callback is reached; any parsed value is handed to the callback.
CallbackInvoked(kind) == kind # "malformed"

\* A receiver that catches json.JSONDecodeError only.
OnMessageCatchesDecodeOnly(kind) == IF kind = "malformed" THEN "idle" ELSE "dead"

\* MQTTwrapper.py:82-85: both except clauses print and return, so the
\* message-arrival path is ready for the next payload.
OnMessageAfterError(kind) == "idle"

\* MQTTwrapper.py:76-85 with ingest.py:27: a bad payload arrives; the error
\* is raised before handle reaches buf_lock, so the buffer is not touched.
InternalOnMessageError ==
    /\ prod_pc = "idle"
    /\ sched_pc # "stopped"
    /\ nmsgs < MaxMsgs
    /\ \E kind \in BadPayloads :
          /\ ncallbacks' = IF CallbackInvoked(kind) THEN ncallbacks + 1
                           ELSE ncallbacks
          /\ nmalformed' = IF kind = "malformed" THEN nmalformed + 1
                           ELSE nmalformed
          /\ nraised' = IF kind = "malformed" THEN nraised ELSE nraised + 1
          /\ prod_pc' = OnMessageAfterError(kind)
    /\ nmsgs' = nmsgs + 1
    /\ UNCHANGED <<flush_every_s, flush_batch, buffer, buf_lock, last_flush,
                   now, flush_now, batch, temps, hums, count_t, count_h,
                   sched_pc, prod_rows, temp_table, hum_table, accepted,
                   drained, bufAtLock, pendingWrites, res_t, res_h,
                   handed_t, handed_h, pendingAtStop>>
    /\ UNCHANGED outsideIngest

\* ----------------------------------------------------- the poll loop

\* The trigger evaluation with > for >= in the count trigger.
FlushDecisionStrictCount ==
    IF Len(buffer) > flush_batch THEN TRUE
    ELSE IF flush_every_s <= 0 /\ buffer # <<>> THEN TRUE
    ELSE IF flush_every_s > 0 /\ now - last_flush >= flush_every_s /\ buffer # <<>>
    THEN TRUE
    ELSE FALSE

\* The trigger evaluation whose time trigger does not look at the buffer.
FlushDecisionNoEmptyCheck ==
    IF Len(buffer) >= flush_batch THEN TRUE
    ELSE IF flush_every_s <= 0 /\ buffer # <<>> THEN TRUE
    ELSE IF flush_every_s > 0 /\ now - last_flush >= flush_every_s
    THEN TRUE
    ELSE FALSE

\* The trigger evaluation with the count trigger alone.
FlushDecisionCountOnly ==
    IF Len(buffer) >= flush_batch THEN TRUE
    ELSE FALSE

\* The trigger evaluation that is eager for a zero interval only.
FlushDecisionZeroOnly ==
    IF Len(buffer) >= flush_batch THEN TRUE
    ELSE IF flush_every_s = 0 /\ buffer # <<>> THEN TRUE
    ELSE IF flush_every_s > 0 /\ now - last_flush >= flush_every_s /\ buffer # <<>>
    THEN TRUE
    ELSE FALSE

\* ingest.py:71-76: the trigger evaluation.
FlushDecision ==
    IF Len(buffer) >= flush_batch THEN TRUE
    ELSE IF flush_every_s <= 0 /\ buffer # <<>> THEN TRUE
    ELSE IF flush_every_s > 0 /\ now - last_flush >= flush_every_s /\ buffer # <<>>
    THEN TRUE
    ELSE FALSE

\* ingest.py:67-69: sleep one poll period, sample the clock, reset flush_now.
\* Since the last sample at least the sleep has passed, and more when the
\* writes of the last iteration were slow.
Tick ==
    /\ sched_pc = "sleep"
    /\ \E d \in {1, 2} : /\ now + d <= MaxTime
                         /\ now' = now + d
    /\ flush_now' = FALSE
    /\ sched_pc' = "lock"
    /\ UNCHANGED <<flush_every_s, flush_batch, buffer, buf_lock, last_flush, batch,
                   temps, hums, count_t, count_h, prod_pc, prod_rows, nmsgs,
                   temp_table, hum_table, accepted, drained, bufAtLock,
                   pendingWrites, res_t, res_h,
                   handed_t, handed_h, pendingAtStop>>
    /\ UNCHANGED rxVars
    /\ UNCHANGED outsideIngest

\* ingest.py:70-76: take buf_lock and evaluate the triggers.
Evaluate ==
    /\ sched_pc = "lock"
    /\ buf_lock = "free"
    /\ buf_lock' = "scheduler"
    /\ bufAtLock' = buffer
    /\ flush_now' = FlushDecision
    /\ sched_pc' = "decided"
    /\ UNCHANGED <<flush_every_s, flush_batch, buffer, last_flush, now,
                   batch, temps, hums, count_t, count_h, prod_pc, prod_rows, nmsgs,
                   temp_table, hum_table, accepted, drained, pendingWrites,
                   res_t, res_h,
                   handed_t, handed_h, pendingAtStop>>
    /\ UNCHANGED rxVars
    /\ UNCHANGED outsideIngest

\* ingest.py:77-78: batch = buffer[:].
Copy ==
    /\ sched_pc = "decided"
    /\ flush_now
    /\ batch' = buffer
    /\ pendingWrites' = 2
    /\ res_t' = "none"
    /\ res_h' = "none"
    /\ sched_pc' = "clear"
    /\ UNCHANGED <<flush_every_s, flush_batch, buffer, buf_lock, last_flush, now,
                   flush_now, temps, hums, count_t, count_h, prod_pc, prod_rows,
                   nmsgs, temp_table, hum_table, accepted, drained, bufAtLock,
                   handed_t, handed_h, pendingAtStop>>
    /\ UNCHANGED rxVars
    /\ UNCHANGED outsideIngest

\* ingest.py:79: buffer.clear().
Clear ==
    /\ sched_pc = "clear"
    /\ buffer' = <<>>
    /\ drained' = drained \o batch
    /\ sched_pc' = "release"
    /\ UNCHANGED <<flush_every_s, flush_batch, buf_lock, last_flush, now, flush_now,
                   batch, temps, hums, count_t, count_h, prod_pc, prod_rows, nmsgs,
                   temp_table, hum_table, accepted, bufAtLock, pendingWrites,
                   res_t, res_h,
                   handed_t, handed_h, pendingAtStop>>
    /\ UNCHANGED rxVars
    /\ UNCHANGED outsideIngest

\* A poll loop whose with-block spans the flush: a tick that flushes keeps
\* buf_lock while it partitions and writes.
ReleaseAfterWrites ==
    /\ sched_pc \in {"decided", "release"}
    /\ sched_pc = "decided" => ~flush_now
    /\ buf_lock' = IF flush_now THEN "scheduler" ELSE "free"
    /\ bufAtLock' = <<>>
    /\ sched_pc' = IF flush_now THEN "partition" ELSE "sleep"
    /\ UNCHANGED <<flush_every_s, flush_batch, buffer, last_flush, now, flush_now,
                   batch, temps, hums, count_t, count_h, prod_pc, prod_rows, nmsgs,
                   temp_table, hum_table, accepted, drained, pendingWrites,
                   res_t, res_h,
                   handed_t, handed_h, pendingAtStop>>
    /\ UNCHANGED rxVars
    /\ UNCHANGED outsideIngest

\* ingest.py:70-80: the with-block ends and releases buf_lock; a tick that
\* does not flush goes back to sleep.
Release ==
    /\ sched_pc \in {"decided", "release"}
    /\ sched_pc = "decided" => ~flush_now
    /\ buf_lock' = "free"
    /\ bufAtLock' = <<>>
    /\ sched_pc' = IF flush_now THEN "partition" ELSE "sleep"
    /\ UNCHANGED <<flush_every_s, flush_batch, buffer, last_flush, now, flush_now,
                   batch, temps, hums, count_t, count_h, prod_pc, prod_rows, nmsgs,
                   temp_table, hum_table, accepted, drained, pendingWrites,
                   res_t, res_h,
                   handed_t, handed_h, pendingAtStop>>
    /\ UNCHANGED rxVars
    /\ UNCHANGED outsideIngest

\* ingest.py:81-95: partition the batch by metric kind.
Partition ==
    /\ sched_pc = "partition"
    /\ temps' = PartitionTemps(batch)
    /\ hums' = PartitionHums(batch)
    /\ sched_pc' = "write_t"
    /\ UNCHANGED <<flush_every_s, flush_batch, buffer, buf_lock, last_flush, now,
                   flush_now, batch, count_t, count_h, prod_pc, prod_rows, nmsgs,
                   temp_table, hum_table, accepted, drained, bufAtLock,
                   pendingWrites, res_t, res_h,
                   handed_t, handed_h, pendingAtStop>>
    /\ UNCHANGED rxVars
    /\ UNCHANGED outsideIngest

\* insert_temps_bulk whose failure sends the loop back to its sleep.
InsertTempsThenLoop ==
    /\ sched_pc = "write_t"
    /\ \E ok \in BOOLEAN :
         /\ temp_table' = BulkInsert(temp_table, temps, ok)
         /\ count_t' = BulkCount(temps, ok)
         /\ res_t' = IF ok THEN "ok" ELSE "failed"
         /\ sched_pc' = IF ok THEN "write_h" ELSE "sleep"
    /\ handed_t' = handed_t \o temps
    /\ pendingWrites' = pendingWrites - 1
    /\ UNCHANGED <<flush_every_s, flush_batch, buffer, buf_lock, last_flush, now,
                   flush_now, batch, temps, hums, count_h, prod_pc, prod_rows,
                   nmsgs, hum_table, accepted, drained, bufAtLock, res_h,
                   handed_h, pendingAtStop>>
    /\ UNCHANGED rxVars
    /\ UNCHANGED outsideIngest

\* insert_temps_bulk whose failure puts the batch back into the buffer.
InsertTempsRequeue ==
    /\ sched_pc = "write_t"
    /\ \E ok \in BOOLEAN :
         /\ temp_table' = BulkInsert(temp_table, temps, ok)
         /\ count_t' = BulkCount(temps, ok)
         /\ res_t' = IF ok THEN "ok" ELSE "failed"
         /\ buffer' = IF ok THEN buffer ELSE batch \o buffer
    /\ handed_t' = handed_t \o temps
    /\ pendingWrites' = pendingWrites - 1
    /\ sched_pc' = "write_h"
    /\ UNCHANGED <<flush_every_s, flush_batch, buf_lock, last_flush, now,
                   flush_now, batch, temps, hums, count_h, prod_pc, prod_rows,
                   nmsgs, hum_table, accepted, drained, bufAtLock, res_h,
                   handed_h, pendingAtStop>>
    /\ UNCHANGED rxVars
    /\ UNCHANGED outsideIngest

\* ingest.py:97: count_t = db.insert_temps_bulk(temps).
InsertTemps ==
    /\ sched_pc = "write_t"
    /\ \E ok \in BOOLEAN :
         /\ temp_table' = BulkInsert(temp_table, temps, ok)
         /\ count_t' = BulkCount(temps, ok)
         /\ res_t' = IF ok THEN "ok" ELSE "failed"
    /\ handed_t' = handed_t \o temps
    /\ pendingWrites' = pendingWrites - 1
    /\ sched_pc' = "write_h"
    /\ UNCHANGED <<flush_every_s, flush_batch, buffer, buf_lock, last_flush, now,
                   flush_now, batch, temps, hums, count_h, prod_pc, prod_rows,
                   nmsgs, hum_table, accepted, drained, bufAtLock, res_h,
                   handed_h, pendingAtStop>>
    /\ UNCHANGED rxVars
    /\ UNCHANGED outsideIngest

\* insert_hums_bulk whose failure also undoes the batch's temperature rows.
InsertHumsSharedTransaction ==
    /\ sched_pc = "write_h"
    /\ \E ok \in BOOLEAN :
         /\ hum_table' = BulkInsert(hum_table, hums, ok)
         /\ count_h' = BulkCount(hums, ok)
         /\ res_h' = IF ok THEN "ok" ELSE "failed"
         /\ temp_table' = IF ok THEN temp_table
                          ELSE SubSeq(temp_table, 1, Len(temp_table) - count_t)
    /\ handed_h' = handed_h \o hums
    /\ pendingWrites' = pendingWrites - 1
    /\ sched_pc' = "stamp"
    /\ UNCHANGED <<flush_every_s, flush_batch, buffer, buf_lock, last_flush, now,
                   flush_now, batch, temps, hums, count_t, prod_pc, prod_rows,
                   nmsgs, accepted, drained, bufAtLock, res_t,
                   handed_t, pendingAtStop>>
    /\ UNCHANGED rxVars
    /\ UNCHANGED outsideIngest

\* ingest.py:98: count_h = db.insert_hums_bulk(hums).
InsertHums ==
    /\ sched_pc = "write_h"
    /\ \E ok \in BOOLEAN :
         /\ hum_table' = BulkInsert(hum_table, hums, ok)
         /\ count_h' = BulkCount(hums, ok)
         /\ res_h' = IF ok THEN "ok" ELSE "failed"
    /\ handed_h' = handed_h \o hums
    /\ pendingWrites' = pendingWrites - 1
    /\ sched_pc' = "stamp"
    /\ UNCHANGED <<flush_every_s, flush_batch, buffer, buf_lock, last_flush, now,
                   flush_now, batch, temps, hums, count_t, prod_pc, prod_rows,
                   nmsgs, temp_table, accepted, drained, bufAtLock, res_t,
                   handed_t, pendingAtStop>>
    /\ UNCHANGED rxVars
    /\ UNCHANGED outsideIngest

\* A poll loop that reads the clock again after the writes for last_flush.
StampClockAfterWrites ==
    /\ sched_pc = "stamp"
    /\ \E d \in {0, 1} : last_flush' = now + d
    /\ batch' = <<>>
    /\ temps' = <<>>
    /\ hums' = <<>>
    /\ count_t' = 0
    /\ count_h' = 0
    /\ res_t' = "none"
    /\ res_h' = "none"
    /\ sched_pc' = "sleep"
    /\ UNCHANGED <<flush_every_s, flush_batch, buffer, buf_lock, now, flush_now,
                   prod_pc, prod_rows, nmsgs, temp_table, hum_table, accepted,
                   drained, bufAtLock, pendingWrites,
                   handed_t, handed_h, pendingAtStop>>
    /\ UNCHANGED rxVars
    /\ UNCHANGED outsideIngest

\* ingest.py:99-102: last_flush = now, log the totals, next iteration.  The
\* iteration's locals (batch, temps, hums, count_t, count_h) are dead from here
\* on, each is assigned again before it is read: the model forgets them.
Stamp ==
    /\ sched_pc = "stamp"
    /\ last_flush' = now
    /\ batch' = <<>>
    /\ temps' = <<>>
    /\ hums' = <<>>
    /\ count_t' = 0
    /\ count_h' = 0
    /\ res_t' = "none"
    /\ res_h' = "none"
    /\ sched_pc' = "sleep"
    /\ UNCHANGED <<flush_every_s, flush_batch, buffer, buf_lock, now, flush_now,
                   prod_pc, prod_rows, nmsgs, temp_table, hum_table, accepted,
                   drained, bufAtLock, pendingWrites,
                   handed_t, handed_h, pendingAtStop>>
    /\ UNCHANGED rxVars
    /\ UNCHANGED outsideIngest

\* ingest.py:103-106: KeyboardInterrupt anywhere in the loop: a with-block in
\* progress releases buf_lock, the loop is left and rx.disconnect() stops the
\* delivery of messages.
Interrupt ==
    /\ sched_pc # "stopped"
    /\ buf_lock' = IF buf_lock = "scheduler" THEN "free" ELSE buf_lock
    /\ sched_pc' = "stopped"
    /\ pendingAtStop' = buffer
    /\ UNCHANGED <<flush_every_s, flush_batch, buffer, last_flush, now, flush_now,
                   batch, temps, hums, count_t, count_h, prod_pc, prod_rows, nmsgs,
                   temp_table, hum_table, accepted, drained, bufAtLock,
                   pendingWrites, res_t, res_h,
                   handed_t, handed_h>>
    /\ UNCHANGED rxVars
    /\ UNCHANGED outsideIngest

\* ------------------------------- WeatherDatabase.py, central_receiver.py

\* One reading of a batch message.
Reading(sensor_id, sensor_type, t, h) ==
    [sensor_id |-> sensor_id, sensor_type |-> sensor_type,
     temperature |-> t, humidity |-> h, timestamp |-> "ts"]

\* A DS18B20 reading with and without a temperature, a BME280 reading, and a
\* reading of a sensor type the database does not know.
Readings ==
    { Reading("st_ds18b20", "ds18b20", "21.5", None),
      Reading("st_ds18b20", "ds18b20", None, None),
      Reading("st_bme280", "bme280", "22.0", "40"),
      Reading("st_x", "dht11", "20.0", "35") }

\* The "readings" lists of the batch messages.
Batches == UNION { [1..k -> Readings] : k \in 0..MaxReadings }

\* WeatherDatabase.py:85-103: the loop of insert_batch from reading i on.  st
\* holds the tables as the open transaction sees them and the two counters.
\* The execute of reading failAt raises; failAt = Len(readings) + 1 makes
\* conn.commit() raise; failAt = 0 makes nothing raise.
RECURSIVE InsertBatchLoop(_, _, _, _)
InsertBatchLoop(readings, i, failAt, st) ==
    IF i > Len(readings) THEN [st EXCEPT !.raised = (failAt = i)]
    ELSE LET r == readings[i]
         IN IF r.sensor_type = "ds18b20"
            THEN IF r.temperature # None
                 THEN IF failAt = i THEN [st EXCEPT !.raised = TRUE]
                      ELSE InsertBatchLoop(readings, i + 1, failAt,
                             [st EXCEPT
                                !.ds = Append(@, [sensor_id |-> r.sensor_id,
                                                  temperature |-> r.temperature,
                                                  timestamp |-> r.timestamp]),
                                !.ds_count = @ + 1])
                 ELSE InsertBatchLoop(readings, i + 1, failAt, st)
            ELSE IF r.sensor_type = "bme280"
            THEN IF failAt = i THEN [st EXCEPT !.raised = TRUE]
                 ELSE InsertBatchLoop(readings, i + 1, failAt,
                        [st EXCEPT
                           !.bme = Append(@, [sensor_id |-> r.sensor_id,
                                              temperature |-> r.temperature,
                                              humidity |-> r.humidity,
                                              timestamp |-> r.timestamp]),
                           !.bme_count = @ + 1])
            ELSE InsertBatchLoop(readings, i + 1, failAt, st)

\* An insert_batch that commits what was inserted before the exception.
InsertBatchNoRollback(ds, bme, readings, failAt) ==
    LET run == InsertBatchLoop(readings, 1, failAt,
                 [ds |-> ds, bme |-> bme, ds_count |-> 0, bme_count |-> 0,
                  raised |-> FALSE])
    IN [ds |-> run.ds,
        bme |-> run.bme,
        counts |-> <<run.ds_count, run.bme_count>>,
        raised |-> run.raised,
        escaped |-> FALSE,
        closed |-> TRUE]

\* WeatherDatabase.py:72-113: insert_batch.  An exception of the loop or of
\* the commit is caught (107-109) and rolls the transaction back; the
\* connection is closed in the finally (110-111); the counters are returned as
\* they stand (113).
InsertBatch(ds, bme, readings, failAt) ==
    LET run == InsertBatchLoop(readings, 1, failAt,
                 [ds |-> ds, bme |-> bme, ds_count |-> 0, bme_count |-> 0,
                  raised |-> FALSE])
    IN [ds |-> IF run.raised THEN ds ELSE run.ds,
        bme |-> IF run.raised THEN bme ELSE run.bme,
        counts |-> <<run.ds_count, run.bme_count>>,
        raised |-> run.raised,
        escaped |-> FALSE,
        closed |-> TRUE]

\* central_receiver.py:42-69: _on_message with a "readings" payload:
\* _process_batch inserts the batch and counts its readings, then the message
\* is counted.
ProcessBatch ==
    /\ message_count < MaxCalls
    /\ \E readings \in Batches : \E failAt \in 0..(Len(readings) + 1) :
         LET res == InsertBatch(ds18b20_readings, bme280_readings, readings, failAt)
         IN /\ ds18b20_readings' = res.ds
            /\ bme280_readings' = res.bme
            /\ ret_counts' = res.counts
            /\ rows_before' = <<Len(ds18b20_readings), Len(bme280_readings)>>
            /\ readings_count' = readings_count + Len(readings)
    /\ message_count' = message_count + 1
    /\ UNCHANGED outsideReceiver

\* WeatherDatabase.py:8-38, central_receiver.py:28-40: empty tables, counters 0.
InitReceiver ==
    /\ ds18b20_readings = <<>>
    /\ bme280_readings = <<>>
    /\ message_count = 0
    /\ readings_count = 0
    /\ ret_counts = <<0, 0>>
    /\ rows_before = <<0, 0>>

\* No single-message run is under way.
NormIdle ==
    /\ norm_msg = None
    /\ norm_pc = "idle"
    /\ norm_rows = <<>>
    /\ norm_temps = <<>>
    /\ norm_hums = <<>>

\* The threads that call _send_batch: the batch thread
\* (station_sender.py:173) and the thread that runs stop
\* (station_sender.py:138).
SendCallers == {"batch", "main"}

\* The history record of a send_message call that never happened.
NoSend ==
    [called |-> FALSE, conn |-> FALSE, exc |-> "none", rc |-> "none",
     ret |-> FALSE, raised |-> FALSE, pub |-> FALSE]

\* station_sender.py:29-67: the state a MeasurementSender is constructed
\* with; the threads are "off" until start.
SenderConstructed ==
    /\ reading_queue = <<>>
    /\ stop_event = FALSE
    /\ sender_readings_count = 0
    /\ batches_sent = 0
    /\ disconnected = FALSE
    /\ meas_readings = <<>>
    /\ sb_pc = [t \in SendCallers |-> "idle"]
    /\ sb_readings = [t \in SendCallers |-> <<>>]
    /\ ntaken = 0
    /\ published = <<>>
    /\ requeued = {}
    /\ last_send = NoSend

\* No station sender runs.
SenderIdle ==
    /\ SenderConstructed
    /\ meas_pc = "off"
    /\ batch_pc = "off"
    /\ main_pc = "off"

\* The history record of a WeatherDatabase call that never happened.
NoStoreOp == [op |-> "none", arg1 |-> None, arg2 |-> None, arg3 |-> None]

\* No WeatherDatabase method has been called directly.
StoreIdle ==
    /\ store_nops = 0
    /\ store_op = NoStoreOp
    /\ deleted = <<0, 0>>
    /\ range_result = <<>>

\* The threads that run _flush_queue: the batch-insert thread and the thread
\* that calls stop.
FlushCallers == {"batch", "main"}

\* measurement_system.py:24-44: a MeasurementSystem that was constructed and
\* not started.
MsysIdle ==
    /\ ms_reading_queue = <<>>
    /\ ms_stop_event = FALSE
    /\ ms_readings_count = 0
    /\ ms_inserts_count = 0
    /\ ms_meas_pc = "off"
    /\ ms_reading = 0
    /\ ms_batch_pc = "off"
    /\ ms_main_pc = "off"
    /\ ms_flush_pc = [t \in FlushCallers |-> "idle"]
    /\ ms_flush_readings = [t \in FlushCallers |-> <<>>]
    /\ ms_ntaken = 0
    /\ ms_inserted = <<>>
    /\ ms_committed = <<>>

\* station_sender.py:82: start has not been called.
StartIdle ==
    /\ start_pc = "off"
    /\ ds18_ok = FALSE
    /\ humidity_ok = FALSE
    /\ connect_called = FALSE
    /\ connected = FALSE
    /\ start_ret = "none"

\* sender.py:97: main has not been called.
MainIdle ==
    /\ sd_pc = "off"
    /\ use_bme = FALSE
    /\ sd_dht = FALSE
    /\ sd_bme = FALSE
    /\ sd_ds = FALSE
    /\ sd_tx_created = FALSE
    /\ sd_connect_called = FALSE
    /\ sd_exit = "none"
    /\ measurements = <<>>
    /\ sd_nsent = 0

\* The history record of an _on_message call that never happened.
NoCall ==
    [called |-> FALSE, has_readings |-> FALSE, path |-> "none",
     raised |-> FALSE, escaped |-> FALSE, sensor_type |-> None,
     temperature |-> None]

\* central_receiver.py:42: _on_message has not been called.
OnMessageIdle ==
    /\ rx_calls = 0
    /\ on_message = NoCall

\* app.py:62: no request has been made of the read path.
ReadIdle ==
    /\ read_pc = "off"
    /\ read_temps = {}
    /\ read_hums = {}
    /\ read_station = None
    /\ read_rows = <<>>
    /\ read_shaped = <<>>

\* The history record of a loop iteration that never happened.
NoTake ==
    [fn |-> "none", ds_temp |-> None, humidity_sensor |-> FALSE,
     humid_temp |-> None, humidity |-> None, result |-> <<>>]

\* station_sender.py:58, measurement_system.py:35: the queues as constructed,
\* no measurement loop has run.
TakeIdle ==
    /\ take_calls = 0
    /\ take_last = NoTake
    /\ sender_queue = <<>>
    /\ system_queue = <<>>

\* The subsystems that each specification but their own leaves idle.
OthersIdle == TakeIdle /\ ReadIdle /\ OnMessageIdle /\ MainIdle /\ StartIdle /\ MsysIdle /\ StoreIdle

Init == InitIngest /\ InitReceiver /\ NormIdle /\ SenderIdle /\ OthersIdle

Next ==
    \/ HandleAcquire
    \/ HandleAppend
    \/ InternalOnMessageError
    \/ Tick
    \/ Evaluate
    \/ Copy
    \/ Clear
    \/ Release
    \/ Partition
    \/ InsertTemps
    \/ InsertHums
    \/ Stamp
    \/ Interrupt

Spec == Init /\ [][Next]_vars

\* The central receiver alone, the ingest process at its defaults and idle.
InitDB ==
    /\ InitIngest
    /\ flush_every_s = DefaultFlushInterval
    /\ flush_batch = DefaultFlushBatch
    /\ InitReceiver
    /\ NormIdle
    /\ SenderIdle
    /\ OthersIdle

NextDB ==
    \/ ProcessBatch

SpecDB == InitDB /\ [][NextDB]_vars

\* ------------------------------------- WeatherDatabase called directly

\* The latest timestamp of a stored row; timestamps are the canonical
\* "YYYY-MM-DD HH:MM:SS" strings, which compare as the times they denote, and
\* are numbered in that order.
MaxTs == 2

\* Calls of WeatherDatabase methods in one run.
MaxOps == 3

Timestamps == 1..MaxTs

\* None (SQL NULL) where a timestamp is expected.
NoTime == 0

\* A timestamp argument: None, a timestamp, or one past the latest.
TimeArgs == {NoTime} \cup (1..(MaxTs + 1))

\* The reading r taken at ts.
StampedReading(r, ts) == [r EXCEPT !.timestamp = ts]

\* The batches insert_batch is called with: one or two readings of the two
\* known sensor types taken at one time (station_sender.py:178), and one
\* batch of a reading without temperature and a reading of unknown type.
StoreBatches ==
    { [i \in 1..Len(b) |-> StampedReading(b[i], ts)] :
        b \in UNION { [1..k -> { Reading("st_ds18b20", "ds18b20", "21.5", None),
                                 Reading("st_bme280", "bme280", "22.0", "40") }] :
                      k \in 1..2 },
        ts \in Timestamps }
    \cup { << StampedReading(Reading("st_ds18b20", "ds18b20", None, None), 1),
              StampedReading(Reading("st_x", "dht11", "20.0", "35"), 1) >> }

\* datetime.now() as a timestamp: not earlier than any stored row.
StoreClock == MaxTs

\* A delete that also removes the rows stamped with the cutoff itself.
NotNewerThan(ts, cutoff) == cutoff # NoTime /\ ts <= cutoff

\* WeatherDatabase.py:204, 207: `timestamp < ?`; no row compares with NULL.
OlderThan(ts, cutoff) == cutoff # NoTime /\ ts < cutoff

\* WeatherDatabase.py:191: `timestamp BETWEEN ? AND ?`; a NULL bound makes
\* the comparison NULL and the row is not selected.
Between(ts, lo, hi) == lo # NoTime /\ hi # NoTime /\ lo <= ts /\ ts <= hi

\* The rows of table that pass Keep, in table order.
RECURSIVE SelectRows(_, _)
SelectRows(table, keep) ==
    IF table = <<>> THEN <<>>
    ELSE IF keep[Head(table)] THEN << Head(table) >> \o SelectRows(Tail(table), keep)
    ELSE SelectRows(Tail(table), keep)

\* WeatherDatabase.py:192: ORDER BY timestamp DESC; row put into the sorted
\* sequence q behind the rows that are not older than it.
RECURSIVE InsertDesc(_, _)
InsertDesc(q, row) ==
    IF q = <<>> THEN << row >>
    ELSE IF Head(q).timestamp >= row.timestamp
    THEN << Head(q) >> \o InsertDesc(Tail(q), row)
    ELSE << row >> \o q

RECURSIVE SortDesc(_)
SortDesc(q) ==
    IF q = <<>> THEN <<>>
    ELSE InsertDesc(SortDesc(SubSeq(q, 1, Len(q) - 1)), q[Len(q)])

\* WeatherDatabase.py:40-54: insert_ds18b20; a None timestamp becomes the
\* current time; an sqlite error leaves the call before the commit.
StoreInsertDs18b20 ==
    /\ store_nops < MaxOps
    /\ \E temperature \in {"21.5"}, timestamp \in Timestamps \cup {NoTime},
          ok \in BOOLEAN :
         /\ ds18b20_readings' =
               IF ok
               THEN Append(ds18b20_readings,
                           [sensor_id |-> "st_ds18b20", temperature |-> temperature,
                            timestamp |-> IF timestamp = NoTime THEN StoreClock
                                          ELSE timestamp])
               ELSE ds18b20_readings
         /\ store_op' = [op |-> "insert_ds18b20", arg1 |-> temperature,
                         arg2 |-> timestamp, arg3 |-> ok]
    /\ store_nops' = store_nops + 1
    /\ UNCHANGED <<bme280_readings, ret_counts, rows_before, deleted, range_result>>
    /\ UNCHANGED outsideStore

\* WeatherDatabase.py:56-70: insert_bme280.
StoreInsertBme280 ==
    /\ store_nops < MaxOps
    /\ \E humidity \in {"40"}, timestamp \in Timestamps \cup {NoTime},
          ok \in BOOLEAN :
         /\ bme280_readings' =
               IF ok
               THEN Append(bme280_readings,
                           [sensor_id |-> "st_bme280", temperature |-> "22.0",
                            humidity |-> humidity,
                            timestamp |-> IF timestamp = NoTime THEN StoreClock
                                          ELSE timestamp])
               ELSE bme280_readings
         /\ store_op' = [op |-> "insert_bme280", arg1 |-> humidity,
                         arg2 |-> timestamp, arg3 |-> ok]
    /\ store_nops' = store_nops + 1
    /\ UNCHANGED <<ds18b20_readings, ret_counts, rows_before, deleted, range_result>>
    /\ UNCHANGED outsideStore

\* WeatherDatabase.py:72-113: insert_batch.
StoreInsertBatch ==
    /\ store_nops < MaxOps
    /\ \E readings \in StoreBatches : \E failAt \in 0..(Len(readings) + 1) :
         LET res == InsertBatch(ds18b20_readings, bme280_readings, readings, failAt)
         IN /\ ds18b20_readings' = res.ds
            /\ bme280_readings' = res.bme
            /\ ret_counts' = res.counts
            /\ rows_before' = <<Len(ds18b20_readings), Len(bme280_readings)>>
            /\ store_op' = [op |-> "insert_batch", arg1 |-> Len(readings),
                            arg2 |-> failAt, arg3 |-> None]
    /\ store_nops' = store_nops + 1
    /\ UNCHANGED <<deleted, range_result>>
    /\ UNCHANGED outsideStore

\* WeatherDatabase.py:199-213: delete_readings_older_than; the two DELETEs
\* are committed together, and an sqlite error leaves the call before the
\* commit and the return.
DeleteReadingsOlderThan ==
    /\ store_nops < MaxOps
    /\ \E cutoff_time \in TimeArgs, ok \in BOOLEAN :
         LET keep_ds == [r \in Range(ds18b20_readings) |->
                            ~OlderThan(r.timestamp, cutoff_time)]
             keep_bme == [r \in Range(bme280_readings) |->
                            ~OlderThan(r.timestamp, cutoff_time)]
             ds == SelectRows(ds18b20_readings, keep_ds)
             bme == SelectRows(bme280_readings, keep_bme)
         IN /\ ds18b20_readings' = IF ok THEN ds ELSE ds18b20_readings
            /\ bme280_readings' = IF ok THEN bme ELSE bme280_readings
            /\ deleted' = IF ok THEN <<Len(ds18b20_readings) - Len(ds),
                                       Len(bme280_readings) - Len(bme)>>
                          ELSE deleted
            /\ store_op' = [op |-> "delete_readings_older_than",
                            arg1 |-> cutoff_time, arg2 |-> None, arg3 |-> ok]
    /\ store_nops' = store_nops + 1
    /\ UNCHANGED <<ret_counts, rows_before, range_result>>
    /\ UNCHANGED outsideStore

\* WeatherDatabase.py:181-197: get_readings_in_time_range on one of the two
\* tables.
GetReadingsInTimeRange ==
    /\ store_nops < MaxOps
    /\ \E table \in {"ds18b20_readings", "bme280_readings"},
          sensor_id \in {"st_ds18b20", "st_bme280"},
          start_time \in TimeArgs, end_time \in TimeArgs :
         LET rows == IF table = "ds18b20_readings" THEN ds18b20_readings
                     ELSE bme280_readings
             keep == [r \in Range(rows) |->
                         r.sensor_id = sensor_id
                            /\ Between(r.timestamp, start_time, end_time)]
         IN /\ range_result' = SortDesc(SelectRows(rows, keep))
            /\ store_op' = [op |-> table, arg1 |-> sensor_id,
                            arg2 |-> start_time, arg3 |-> end_time]
    /\ store_nops' = store_nops + 1
    /\ UNCHANGED <<ds18b20_readings, bme280_readings, ret_counts, rows_before,
                   deleted>>
    /\ UNCHANGED outsideStore

\* WeatherDatabase.py:8-38: a database with empty tables, everything else idle.
InitStore ==
    /\ InitIngest
    /\ flush_every_s = DefaultFlushInterval
    /\ flush_batch = DefaultFlushBatch
    /\ InitReceiver
    /\ NormIdle
    /\ SenderIdle
    /\ OthersIdle

NextStore ==
    \/ StoreInsertDs18b20
    \/ StoreInsertBme280
    \/ StoreInsertBatch
    \/ DeleteReadingsOlderThan
    \/ GetReadingsInTimeRange

SpecStore == InitStore /\ [][NextStore]_vars

\* --------------------------------- handle and partition on one message

\* Entries in one measurement list.
MaxEntries == 2

\* Flat readings: each metric present or absent, each sensor id given or not,
\* the station id present or absent.
NormFlatMessages ==
    { Message(st, sid, t, tsid, h, hsid, <<>>, FALSE) :
        st \in {"st", None}, sid \in {None, "", "sx"},
        t \in {None, "21.5"}, tsid \in {None, "tx"},
        h \in {None, "40"}, hsid \in {None, "hx"} }

\* The elements a measurement list is made of.
NormEntries ==
    { Measurement(TRUE, "temperature", "21.5", None),
      Measurement(TRUE, "temperature", "21.5", "tx"),
      Measurement(TRUE, "temperature", None, None),
      Measurement(TRUE, "humidity", "40", None),
      Measurement(TRUE, "humidity", "40", "hx"),
      Measurement(TRUE, "pressure", "1000", None),
      Measurement(FALSE, None, None, None) }

\* Measurement lists of up to MaxEntries entries.
NormListMessages ==
    { Message(st, sid, None, None, None, None, ms, TRUE) :
        st \in {"st", None}, sid \in {None, "sx"},
        ms \in UNION { [1..k -> NormEntries] : k \in 0..MaxEntries } }

\* station_sender.py:219-222: the batch wrapper the station sender publishes;
\* it has no timestamp and no metric of its own.
BatchWrapper(station_id, readings) ==
    [station_id |-> station_id, sensor_id |-> None,
     temperature |-> None, temperature_sensor_id |-> None,
     humidity |-> None, humidity_sensor_id |-> None,
     timestamp |-> None, measurements |-> <<>>, hasList |-> FALSE,
     readings |-> readings]

NormWrapperMessages == { BatchWrapper("st", rs) : rs \in Batches }

NormMessages == NormFlatMessages \cup NormListMessages \cup NormWrapperMessages

\* ingest.py:26-58: handle on norm_msg, the buffer empty before.
NormHandle ==
    /\ norm_pc = "ready"
    /\ norm_rows' = HandleRows(norm_msg, 1)
    /\ norm_pc' = "handled"
    /\ UNCHANGED <<norm_msg, norm_temps, norm_hums>>
    /\ UNCHANGED outsideNorm

\* ingest.py:80-95: the partition of the batch that holds these rows.
NormPartition ==
    /\ norm_pc = "handled"
    /\ norm_temps' = PartitionTemps(norm_rows)
    /\ norm_hums' = PartitionHums(norm_rows)
    /\ norm_pc' = "partitioned"
    /\ UNCHANGED <<norm_msg, norm_rows>>
    /\ UNCHANGED outsideNorm

\* One message through handle and the partition, the rest of the system idle.
InitNorm ==
    /\ InitIngest
    /\ flush_every_s = DefaultFlushInterval
    /\ flush_batch = DefaultFlushBatch
    /\ InitReceiver
    /\ SenderIdle
    /\ OthersIdle
    /\ norm_msg \in NormMessages
    /\ norm_pc = "ready"
    /\ norm_rows = <<>>
    /\ norm_temps = <<>>
    /\ norm_hums = <<>>

NextNorm ==
    \/ NormHandle
    \/ NormPartition

SpecNorm == InitNorm /\ [][NextNorm]_vars

\* ------------------------------------------------- the station sender

\* Readings _take_readings returns in one run.
MaxTaken == 3

\* What one send_message call meets: is_connected() raising; the client not
\* connected; json.dumps or publish raising; publish returning a result code.
SendCases ==
    { [conn |-> FALSE, exc |-> "is_connected", rc |-> "none"],
      [conn |-> FALSE, exc |-> "none", rc |-> "none"],
      [conn |-> TRUE, exc |-> "dumps", rc |-> "none"],
      [conn |-> TRUE, exc |-> "publish", rc |-> "none"],
      [conn |-> TRUE, exc |-> "none", rc |-> "MQTT_ERR_SUCCESS"],
      [conn |-> TRUE, exc |-> "none", rc |-> "MQTT_ERR_NO_CONN"] }

\* A send_message without its try/except.
SendMessageUncaught(conn, exc, rc) ==
    IF exc = "is_connected" THEN [ret |-> FALSE, raised |-> TRUE, pub |-> FALSE]
    ELSE IF ~conn THEN [ret |-> FALSE, raised |-> FALSE, pub |-> FALSE]
    ELSE IF exc # "none" THEN [ret |-> FALSE, raised |-> TRUE, pub |-> FALSE]
    ELSE [ret |-> rc = "MQTT_ERR_SUCCESS", raised |-> FALSE,
          pub |-> rc = "MQTT_ERR_SUCCESS"]

\* MQTTwrapper.py:26-42: send_message.  ret is the value returned, raised
\* whether an exception leaves the call, pub whether publish took the payload
\* and reported MQTT_ERR_SUCCESS.
SendMessage(conn, exc, rc) ==
    IF exc = "is_connected" THEN [ret |-> FALSE, raised |-> FALSE, pub |-> FALSE]
    ELSE IF ~conn THEN [ret |-> FALSE, raised |-> FALSE, pub |-> FALSE]
    ELSE IF exc # "none" THEN [ret |-> FALSE, raised |-> FALSE, pub |-> FALSE]
    ELSE [ret |-> rc = "MQTT_ERR_SUCCESS", raised |-> FALSE,
          pub |-> rc = "MQTT_ERR_SUCCESS"]

\* A measurement loop that sleeps and never looks at the stop event.
MeasWakeIgnoresStop ==
    /\ meas_pc = "wait"
    /\ meas_pc' = "reading"
    /\ UNCHANGED <<reading_queue, stop_event, sender_readings_count,
                   batches_sent, disconnected, meas_readings, batch_pc, main_pc,
                   sb_pc, sb_readings, ntaken, published, requeued, last_send>>
    /\ UNCHANGED outsideSender

\* station_sender.py:160: the stop event's wait returns; the loop ends when
\* the event is set and goes on to _take_readings when the wait timed out.
MeasWake ==
    /\ meas_pc = "wait"
    /\ meas_pc' = IF stop_event THEN "done" ELSE "reading"
    /\ UNCHANGED <<reading_queue, stop_event, sender_readings_count,
                   batches_sent, disconnected, meas_readings, batch_pc, main_pc,
                   sb_pc, sb_readings, ntaken, published, requeued, last_send>>
    /\ UNCHANGED outsideSender

\* station_sender.py:161, 175-203: _take_readings returns no, one or two
\* readings.
MeasTake ==
    /\ meas_pc = "reading"
    /\ \E k \in 0..2 :
         /\ ntaken + k <= MaxTaken
         /\ meas_readings' = [i \in 1..k |-> ntaken + i]
         /\ ntaken' = ntaken + k
         /\ meas_pc' = IF k = 0 THEN "wait" ELSE "put"
    /\ UNCHANGED <<reading_queue, stop_event, sender_readings_count,
                   batches_sent, disconnected, batch_pc, main_pc, sb_pc,
                   sb_readings, published, requeued, last_send>>
    /\ UNCHANGED outsideSender

\* station_sender.py:163-165: one reading is put on the queue and counted.
MeasPut ==
    /\ meas_pc = "put"
    /\ reading_queue' = Append(reading_queue, Head(meas_readings))
    /\ sender_readings_count' = sender_readings_count + 1
    /\ meas_readings' = Tail(meas_readings)
    /\ meas_pc' = IF Len(meas_readings) = 1 THEN "wait" ELSE "put"
    /\ UNCHANGED <<stop_event, batches_sent, disconnected, batch_pc, main_pc,
                   sb_pc, sb_readings, ntaken, published, requeued, last_send>>
    /\ UNCHANGED outsideSender

\* station_sender.py:172-173: the batch loop's wait returns; the loop ends
\* when the event is set and calls _send_batch when the wait timed out.
BatchWake ==
    /\ batch_pc = "wait"
    /\ IF stop_event
       THEN batch_pc' = "done" /\ sb_pc' = sb_pc
       ELSE /\ batch_pc' = "send_batch"
            /\ sb_pc' = [sb_pc EXCEPT !["batch"] = "check"]
    /\ UNCHANGED <<reading_queue, stop_event, sender_readings_count,
                   batches_sent, disconnected, meas_pc, meas_readings, main_pc,
                   sb_readings, ntaken, published, requeued, last_send>>
    /\ UNCHANGED outsideSender

\* Where caller t stands once its _send_batch has returned: the batch loop
\* waits again, stop goes on to disconnect.
BatchPcAfterReturn(t) == IF t = "batch" THEN "wait" ELSE batch_pc

MainPcAfterReturn(t) ==
    IF t # "main" THEN main_pc
    ELSE IF main_pc = "final_send2" THEN "disconnect2"
    ELSE "disconnect"

\* station_sender.py:209, 215-216: the drain loop is left; with nothing
\* drained _send_batch returns, else it goes on to send.
SbPcAfterDrain(t) == IF sb_readings[t] = <<>> THEN "idle" ELSE "send"

\* station_sender.py:209: `while not self._reading_queue.empty()`.
SendBatchCheck(t) ==
    /\ sb_pc[t] = "check"
    /\ IF reading_queue # <<>>
       THEN /\ sb_pc' = [sb_pc EXCEPT ![t] = "get"]
            /\ UNCHANGED <<batch_pc, main_pc>>
       ELSE /\ sb_pc' = [sb_pc EXCEPT ![t] = SbPcAfterDrain(t)]
            /\ batch_pc' = IF sb_readings[t] = <<>> THEN BatchPcAfterReturn(t)
                           ELSE batch_pc
            /\ main_pc' = IF sb_readings[t] = <<>> THEN MainPcAfterReturn(t)
                          ELSE main_pc
    /\ UNCHANGED <<reading_queue, stop_event, sender_readings_count,
                   batches_sent, disconnected, meas_pc, meas_readings,
                   sb_readings, ntaken, published, requeued, last_send>>
    /\ UNCHANGED outsideSender

\* station_sender.py:210-213: get_nowait takes the head of the queue; when
\* another caller emptied the queue meanwhile it raises and the loop breaks.
SendBatchGet(t) ==
    /\ sb_pc[t] = "get"
    /\ IF reading_queue # <<>>
       THEN /\ sb_readings' = [sb_readings EXCEPT
                                 ![t] = Append(@, Head(reading_queue))]
            /\ reading_queue' = Tail(reading_queue)
            /\ sb_pc' = [sb_pc EXCEPT ![t] = "check"]
            /\ UNCHANGED <<batch_pc, main_pc>>
       ELSE /\ sb_pc' = [sb_pc EXCEPT ![t] = SbPcAfterDrain(t)]
            /\ batch_pc' = IF sb_readings[t] = <<>> THEN BatchPcAfterReturn(t)
                           ELSE batch_pc
            /\ main_pc' = IF sb_readings[t] = <<>> THEN MainPcAfterReturn(t)
                          ELSE main_pc
            /\ UNCHANGED <<reading_queue, sb_readings>>
    /\ UNCHANGED <<stop_event, sender_readings_count, batches_sent,
                   disconnected, meas_pc, meas_readings, ntaken, published,
                   requeued, last_send>>
    /\ UNCHANGED outsideSender

\* A _send_batch that drops the drained readings when send_message fails.
SendBatchSendDiscards(t) ==
    /\ sb_pc[t] = "send"
    /\ \E c \in SendCases :
         /\ disconnected => ~c.conn
         /\ LET res == SendMessage(c.conn, c.exc, c.rc)
            IN /\ last_send' = [called |-> TRUE, conn |-> c.conn, exc |-> c.exc,
                                rc |-> c.rc, ret |-> res.ret,
                                raised |-> res.raised, pub |-> res.pub]
               /\ published' = IF res.pub THEN Append(published, sb_readings[t])
                               ELSE published
               /\ batches_sent' = IF res.ret THEN batches_sent + 1
                                  ELSE batches_sent
               /\ sb_pc' = [sb_pc EXCEPT ![t] = "idle"]
               /\ sb_readings' = [sb_readings EXCEPT ![t] = <<>>]
               /\ batch_pc' = BatchPcAfterReturn(t)
               /\ main_pc' = MainPcAfterReturn(t)
    /\ UNCHANGED <<reading_queue, stop_event, sender_readings_count,
                   disconnected, meas_pc, meas_readings, ntaken, requeued>>
    /\ UNCHANGED outsideSender

\* station_sender.py:218-226: the batch message is built and send_message is
\* called; True counts the batch and returns, False goes on to the re-queue
\* loop.  The increment of _batches_sent is taken as one step.
SendBatchSend(t) ==
    /\ sb_pc[t] = "send"
    /\ \E c \in SendCases :
         /\ disconnected => ~c.conn
         /\ LET res == SendMessage(c.conn, c.exc, c.rc)
            IN /\ last_send' = [called |-> TRUE, conn |-> c.conn, exc |-> c.exc,
                                rc |-> c.rc, ret |-> res.ret,
                                raised |-> res.raised, pub |-> res.pub]
               /\ published' = IF res.pub THEN Append(published, sb_readings[t])
                               ELSE published
               /\ batches_sent' = IF ~res.raised /\ res.ret THEN batches_sent + 1
                                  ELSE batches_sent
               /\ sb_pc' = [sb_pc EXCEPT
                              ![t] = IF res.raised THEN "raised"
                                     ELSE IF res.ret THEN "idle" ELSE "requeue"]
               /\ sb_readings' = IF ~res.raised /\ res.ret
                                 THEN [sb_readings EXCEPT ![t] = <<>>]
                                 ELSE sb_readings
               /\ batch_pc' = IF ~res.raised /\ res.ret
                              THEN BatchPcAfterReturn(t) ELSE batch_pc
               /\ main_pc' = IF ~res.raised /\ res.ret
                             THEN MainPcAfterReturn(t) ELSE main_pc
    /\ UNCHANGED <<reading_queue, stop_event, sender_readings_count,
                   disconnected, meas_pc, meas_readings, ntaken, requeued>>
    /\ UNCHANGED outsideSender

\* station_sender.py:229-230: one drained reading is put back; after the last
\* one _send_batch returns.
SendBatchRequeue(t) ==
    /\ sb_pc[t] = "requeue"
    /\ reading_queue' = Append(reading_queue, Head(sb_readings[t]))
    /\ requeued' = requeued \cup {Head(sb_readings[t])}
    /\ sb_readings' = [sb_readings EXCEPT ![t] = Tail(@)]
    /\ IF Len(sb_readings[t]) = 1
       THEN /\ sb_pc' = [sb_pc EXCEPT ![t] = "idle"]
            /\ batch_pc' = BatchPcAfterReturn(t)
            /\ main_pc' = MainPcAfterReturn(t)
       ELSE UNCHANGED <<sb_pc, batch_pc, main_pc>>
    /\ UNCHANGED <<stop_event, sender_readings_count, batches_sent,
                   disconnected, meas_pc, meas_readings, ntaken, published,
                   last_send>>
    /\ UNCHANGED outsideSender

\* station_sender.py:294-295, 129: a signal arrives while main is in wait;
\* the handler calls stop, which sets the stop event.
StopSetEvent ==
    /\ main_pc = "wait"
    /\ stop_event' = TRUE
    /\ main_pc' = "join_measure"
    /\ UNCHANGED <<reading_queue, sender_readings_count, batches_sent,
                   disconnected, meas_pc, meas_readings, batch_pc, sb_pc,
                   sb_readings, ntaken, published, requeued, last_send>>
    /\ UNCHANGED outsideSender

\* station_sender.py:131-132: the join of the measurement thread returns,
\* because the thread has ended or because the 2 s timeout has passed.
JoinMeasure ==
    /\ main_pc = "join_measure"
    /\ main_pc' = "join_batch"
    /\ UNCHANGED <<reading_queue, stop_event, sender_readings_count,
                   batches_sent, disconnected, meas_pc, meas_readings, batch_pc,
                   sb_pc, sb_readings, ntaken, published, requeued, last_send>>
    /\ UNCHANGED outsideSender

\* station_sender.py:134-138: the join of the batch thread returns in the
\* same way and stop calls _send_batch.
JoinBatch ==
    /\ main_pc = "join_batch"
    /\ main_pc' = "final_send"
    /\ sb_pc' = [sb_pc EXCEPT !["main"] = "check"]
    /\ UNCHANGED <<reading_queue, stop_event, sender_readings_count,
                   batches_sent, disconnected, meas_pc, meas_readings, batch_pc,
                   sb_readings, ntaken, published, requeued, last_send>>
    /\ UNCHANGED outsideSender

\* station_sender.py:140-148: sender.disconnect(), the clean-up and the
\* statistics.
Disconnect ==
    /\ main_pc = "disconnect"
    /\ disconnected' = TRUE
    /\ main_pc' = "stopped"
    /\ UNCHANGED <<reading_queue, stop_event, sender_readings_count,
                   batches_sent, meas_pc, meas_readings, batch_pc, sb_pc,
                   sb_readings, ntaken, published, requeued, last_send>>
    /\ UNCHANGED outsideSender

\* station_sender.py:298-300, 129-138: the handler's stop has returned into
\* wait, which ends because the event is set, and main calls stop again: the
\* event is set once more, the joins return as before and _send_batch is
\* called.
StopAgain ==
    /\ main_pc = "stopped"
    /\ stop_event' = TRUE
    /\ main_pc' = "final_send2"
    /\ sb_pc' = [sb_pc EXCEPT !["main"] = "check"]
    /\ UNCHANGED <<reading_queue, sender_readings_count,
                   batches_sent, disconnected, meas_pc, meas_readings, batch_pc,
                   sb_readings, ntaken, published, requeued, last_send>>
    /\ UNCHANGED outsideSender

\* station_sender.py:140-148: sender.disconnect() and the clean-up of the
\* second stop; main ends.
DisconnectAgain ==
    /\ main_pc = "disconnect2"
    /\ disconnected' = TRUE
    /\ main_pc' = "stopped2"
    /\ UNCHANGED <<reading_queue, stop_event, sender_readings_count,
                   batches_sent, meas_pc, meas_readings, batch_pc, sb_pc,
                   sb_readings, ntaken, published, requeued, last_send>>
    /\ UNCHANGED outsideSender

\* station_sender.py:82-123, 298-299: start returned True, both threads run
\* and main is in wait; the rest of the system is idle.
InitSender ==
    /\ InitIngest
    /\ flush_every_s = DefaultFlushInterval
    /\ flush_batch = DefaultFlushBatch
    /\ InitReceiver
    /\ NormIdle
    /\ OthersIdle
    /\ SenderConstructed
    /\ meas_pc = "wait"
    /\ batch_pc = "wait"
    /\ main_pc = "wait"

NextSender ==
    \/ MeasWake
    \/ MeasTake
    \/ MeasPut
    \/ BatchWake
    \/ \E t \in SendCallers : SendBatchCheck(t)
    \/ \E t \in SendCallers : SendBatchGet(t)
    \/ \E t \in SendCallers : SendBatchSend(t)
    \/ \E t \in SendCallers : SendBatchRequeue(t)
    \/ StopSetEvent
    \/ JoinMeasure
    \/ JoinBatch
    \/ Disconnect
    \/ StopAgain
    \/ DisconnectAgain

SpecSender == InitSender /\ [][NextSender]_vars

\* ---------------------------------------------------------------------
\* The local measurement system (measurement/measurement_system.py): a
\* measurement thread that queues readings, a batch-insert thread that
\* flushes the queue to the database, and stop.
\* ---------------------------------------------------------------------

MaxMsTaken == 2

\* measurement_system.py:55-91: start; without any sensor it returns False,
\* else it clears the stop event and starts both threads; measure.py:88-89:
\* main then blocks in wait.
MsStart ==
    /\ ms_main_pc = "off"
    /\ \E ds \in BOOLEAN, hum \in BOOLEAN :
         IF ~ds /\ ~hum
         THEN /\ ms_main_pc' = "failed"
              /\ UNCHANGED <<ms_stop_event, ms_meas_pc, ms_batch_pc>>
         ELSE /\ ms_stop_event' = FALSE
              /\ ms_meas_pc' = "wait"
              /\ ms_batch_pc' = "wait"
              /\ ms_main_pc' = "wait"
    /\ UNCHANGED <<ms_reading_queue, ms_readings_count, ms_inserts_count,
                   ms_reading, ms_flush_pc, ms_flush_readings, ms_ntaken,
                   ms_inserted,
                   ms_committed>>
    /\ UNCHANGED outsideMeasure

\* measurement_system.py:129: the stop event's wait returns; the loop ends
\* when the event is set and goes on to _take_reading when the wait timed out.
MsMeasWake ==
    /\ ms_meas_pc = "wait"
    /\ ms_meas_pc' = IF ms_stop_event THEN "done" ELSE "reading"
    /\ UNCHANGED <<ms_reading_queue, ms_stop_event, ms_readings_count,
                   ms_inserts_count, ms_reading, ms_batch_pc, ms_main_pc,
                   ms_flush_pc, ms_flush_readings, ms_ntaken, ms_inserted,
                   ms_committed>>
    /\ UNCHANGED outsideMeasure

\* measurement_system.py:130-131, 141-165: _take_reading returns a reading or
\* None.
MsTakeReading ==
    /\ ms_meas_pc = "reading"
    /\ \E got \in BOOLEAN :
         /\ got => ms_ntaken < MaxMsTaken
         /\ ms_reading' = IF got THEN ms_ntaken + 1 ELSE 0
         /\ ms_ntaken' = IF got THEN ms_ntaken + 1 ELSE ms_ntaken
         /\ ms_meas_pc' = IF got THEN "put" ELSE "wait"
    /\ UNCHANGED <<ms_reading_queue, ms_stop_event, ms_readings_count,
                   ms_inserts_count, ms_batch_pc, ms_main_pc, ms_flush_pc,
                   ms_flush_readings, ms_inserted,
                   ms_committed>>
    /\ UNCHANGED outsideMeasure

\* measurement_system.py:132-133: the reading is put on the queue and counted.
MsPut ==
    /\ ms_meas_pc = "put"
    /\ ms_reading_queue' = Append(ms_reading_queue, ms_reading)
    /\ ms_readings_count' = ms_readings_count + 1
    /\ ms_reading' = 0
    /\ ms_meas_pc' = "wait"
    /\ UNCHANGED <<ms_stop_event, ms_inserts_count, ms_batch_pc, ms_main_pc,
                   ms_flush_pc, ms_flush_readings, ms_ntaken, ms_inserted,
                   ms_committed>>
    /\ UNCHANGED outsideMeasure

\* measurement_system.py:138-139: the batch loop's wait returns; the loop
\* ends when the event is set and calls _flush_queue when the wait timed out.
MsBatchWake ==
    /\ ms_batch_pc = "wait"
    /\ IF ms_stop_event
       THEN ms_batch_pc' = "done" /\ ms_flush_pc' = ms_flush_pc
       ELSE /\ ms_batch_pc' = "flush"
            /\ ms_flush_pc' = [ms_flush_pc EXCEPT !["batch"] = "check"]
    /\ UNCHANGED <<ms_reading_queue, ms_stop_event, ms_readings_count,
                   ms_inserts_count, ms_meas_pc, ms_reading, ms_main_pc,
                   ms_flush_readings, ms_ntaken, ms_inserted,
                   ms_committed>>
    /\ UNCHANGED outsideMeasure

\* Where caller t stands once its _flush_queue has returned: the batch loop
\* waits again, stop goes on to the clean-up.
MsBatchPcAfterReturn(t) == IF t = "batch" THEN "wait" ELSE ms_batch_pc

MsMainPcAfterReturn(t) ==
    IF t # "main" THEN ms_main_pc
    ELSE IF ms_main_pc = "final_flush2" THEN "cleanup2"
    ELSE "cleanup"

\* measurement_system.py:171, 177-178: `while not self._reading_queue.empty()`;
\* when the loop is left with nothing drained _flush_queue returns.
MsFlushCheck(t) ==
    /\ ms_flush_pc[t] = "check"
    /\ IF ms_reading_queue # <<>>
       THEN /\ ms_flush_pc' = [ms_flush_pc EXCEPT ![t] = "get"]
            /\ UNCHANGED <<ms_batch_pc, ms_main_pc>>
       ELSE IF ms_flush_readings[t] = <<>>
       THEN /\ ms_flush_pc' = [ms_flush_pc EXCEPT ![t] = "idle"]
            /\ ms_batch_pc' = MsBatchPcAfterReturn(t)
            /\ ms_main_pc' = MsMainPcAfterReturn(t)
       ELSE /\ ms_flush_pc' = [ms_flush_pc EXCEPT ![t] = "insert"]
            /\ UNCHANGED <<ms_batch_pc, ms_main_pc>>
    /\ UNCHANGED <<ms_reading_queue, ms_stop_event, ms_readings_count,
                   ms_inserts_count, ms_meas_pc, ms_reading,
                   ms_flush_readings, ms_ntaken, ms_inserted,
                   ms_committed>>
    /\ UNCHANGED outsideMeasure

\* measurement_system.py:172-175: get_nowait takes the head of the queue; when
\* another caller emptied the queue meanwhile it raises and the loop breaks.
MsFlushGet(t) ==
    /\ ms_flush_pc[t] = "get"
    /\ IF ms_reading_queue # <<>>
       THEN /\ ms_flush_readings' = [ms_flush_readings EXCEPT
                                       ![t] = Append(@, Head(ms_reading_queue))]
            /\ ms_reading_queue' = Tail(ms_reading_queue)
            /\ ms_flush_pc' = [ms_flush_pc EXCEPT ![t] = "check"]
            /\ UNCHANGED <<ms_batch_pc, ms_main_pc>>
       ELSE IF ms_flush_readings[t] = <<>>
       THEN /\ ms_flush_pc' = [ms_flush_pc EXCEPT ![t] = "idle"]
            /\ ms_batch_pc' = MsBatchPcAfterReturn(t)
            /\ ms_main_pc' = MsMainPcAfterReturn(t)
            /\ UNCHANGED <<ms_reading_queue, ms_flush_readings>>
       ELSE /\ ms_flush_pc' = [ms_flush_pc EXCEPT ![t] = "insert"]
            /\ UNCHANGED <<ms_batch_pc, ms_main_pc, ms_reading_queue,
                           ms_flush_readings>>
    /\ UNCHANGED <<ms_stop_event, ms_readings_count, ms_inserts_count,
                   ms_meas_pc, ms_reading, ms_ntaken, ms_inserted,
                   ms_committed>>
    /\ UNCHANGED outsideMeasure

\* measurement_system.py:181-182, 185-201: the drained readings are passed to
\* _batch_insert_readings, whose executemany and commit succeed or raise; what
\* they raise is caught and rolled back there (197-199), and the insert is
\* counted either way.
MsFlushInsert(t) ==
    /\ ms_flush_pc[t] = "insert"
    /\ ms_inserted' = Append(ms_inserted, ms_flush_readings[t])
    /\ \E ok \in BOOLEAN :
         ms_committed' = IF ok THEN Append(ms_committed, ms_flush_readings[t])
                         ELSE ms_committed
    /\ ms_inserts_count' = ms_inserts_count + 1
    /\ ms_flush_readings' = [ms_flush_readings EXCEPT ![t] = <<>>]
    /\ ms_flush_pc' = [ms_flush_pc EXCEPT ![t] = "idle"]
    /\ ms_batch_pc' = MsBatchPcAfterReturn(t)
    /\ ms_main_pc' = MsMainPcAfterReturn(t)
    /\ UNCHANGED <<ms_reading_queue, ms_stop_event, ms_readings_count,
                   ms_meas_pc, ms_reading, ms_ntaken>>
    /\ UNCHANGED outsideMeasure

\* measure.py:81-82, measurement_system.py:98: a signal arrives while main is
\* in wait; the handler calls stop, which sets the stop event.
MsStopSetEvent ==
    /\ ms_main_pc = "wait"
    /\ ms_stop_event' = TRUE
    /\ ms_main_pc' = "join_measure"
    /\ UNCHANGED <<ms_reading_queue, ms_readings_count, ms_inserts_count,
                   ms_meas_pc, ms_reading, ms_batch_pc, ms_flush_pc,
                   ms_flush_readings, ms_ntaken, ms_inserted,
                   ms_committed>>
    /\ UNCHANGED outsideMeasure

\* measurement_system.py:101-105: join(timeout=2.0) returns when the thread
\* has ended or when the 2 s have passed, wherever the thread then is.
MsJoinReturns(pc) == TRUE

\* measurement_system.py:101-102: the join of the measurement thread returns.
MsJoinMeasure ==
    /\ ms_main_pc = "join_measure"
    /\ MsJoinReturns(ms_meas_pc)
    /\ ms_main_pc' = "join_batch"
    /\ UNCHANGED <<ms_reading_queue, ms_stop_event, ms_readings_count,
                   ms_inserts_count, ms_meas_pc, ms_reading, ms_batch_pc,
                   ms_flush_pc, ms_flush_readings, ms_ntaken, ms_inserted,
                   ms_committed>>
    /\ UNCHANGED outsideMeasure

\* measurement_system.py:104-108: the join of the batch thread returns and
\* stop calls _flush_queue.
MsJoinBatch ==
    /\ ms_main_pc = "join_batch"
    /\ MsJoinReturns(ms_batch_pc)
    /\ ms_main_pc' = "final_flush"
    /\ ms_flush_pc' = [ms_flush_pc EXCEPT !["main"] = "check"]
    /\ UNCHANGED <<ms_reading_queue, ms_stop_event, ms_readings_count,
                   ms_inserts_count, ms_meas_pc, ms_reading, ms_batch_pc,
                   ms_flush_readings, ms_ntaken, ms_inserted,
                   ms_committed>>
    /\ UNCHANGED outsideMeasure

\* measurement_system.py:110-117: the sensors' clean-up and the statistics;
\* stop returns.
MsCleanup ==
    /\ ms_main_pc = "cleanup"
    /\ ms_main_pc' = "stopped"
    /\ UNCHANGED <<ms_reading_queue, ms_stop_event, ms_readings_count,
                   ms_inserts_count, ms_meas_pc, ms_reading, ms_batch_pc,
                   ms_flush_pc, ms_flush_readings, ms_ntaken, ms_inserted,
                   ms_committed>>
    /\ UNCHANGED outsideMeasure

\* measure.py:88-90, measurement_system.py:98-108: the handler's stop has
\* returned into wait, which ends because the event is set, and main calls
\* stop again: the event is set once more, the joins return as before and
\* _flush_queue is called.
MsStopAgain ==
    /\ ms_main_pc = "stopped"
    /\ ms_stop_event' = TRUE
    /\ ms_main_pc' = "final_flush2"
    /\ ms_flush_pc' = [ms_flush_pc EXCEPT !["main"] = "check"]
    /\ UNCHANGED <<ms_reading_queue, ms_readings_count,
                   ms_inserts_count, ms_meas_pc, ms_reading, ms_batch_pc,
                   ms_flush_readings, ms_ntaken, ms_inserted,
                   ms_committed>>
    /\ UNCHANGED outsideMeasure

\* measurement_system.py:110-117: the clean-up of the second stop; main ends.
MsCleanupAgain ==
    /\ ms_main_pc = "cleanup2"
    /\ ms_main_pc' = "stopped2"
    /\ UNCHANGED <<ms_reading_queue, ms_stop_event, ms_readings_count,
                   ms_inserts_count, ms_meas_pc, ms_reading, ms_batch_pc,
                   ms_flush_pc, ms_flush_readings, ms_ntaken, ms_inserted,
                   ms_committed>>
    /\ UNCHANGED outsideMeasure

\* A measurement system that was constructed, everything else idle.
InitMeasure ==
    /\ InitIngest
    /\ flush_every_s = DefaultFlushInterval
    /\ flush_batch = DefaultFlushBatch
    /\ InitReceiver
    /\ NormIdle
    /\ SenderIdle
    /\ OthersIdle

NextMeasure ==
    \/ MsStart
    \/ MsMeasWake
    \/ MsTakeReading
    \/ MsPut
    \/ MsBatchWake
    \/ \E t \in FlushCallers : MsFlushCheck(t)
    \/ \E t \in FlushCallers : MsFlushGet(t)
    \/ \E t \in FlushCallers : MsFlushInsert(t)
    \/ MsStopSetEvent
    \/ MsJoinMeasure
    \/ MsJoinBatch
    \/ MsCleanup
    \/ MsStopAgain
    \/ MsCleanupAgain

SpecMeasure == InitMeasure /\ [][NextMeasure]_vars

\* ---------------------------------------------------------------------
\* The start of the station sender (station_sender.py:69-123, 297-299).
\* ---------------------------------------------------------------------

\* A start that goes on whatever the sensors' init calls returned.
InitSensorsIgnored(ds, hum) == TRUE

\* station_sender.py:80: what _init_sensors returns.
InitSensors(ds, hum) == ds \/ hum

\* station_sender.py:298: main calls sender.start().
StartCall ==
    /\ start_pc = "off"
    /\ main_pc = "off"
    /\ start_pc' = "init_sensors"
    /\ main_pc' = "start"
    /\ UNCHANGED <<ds18_ok, humidity_ok, connect_called, connected, start_ret, stop_event, meas_pc, batch_pc>>
    /\ UNCHANGED senderRunVars
    /\ UNCHANGED outsideStart

\* station_sender.py:69-80, 96-98: _init_sensors calls init of the DS18B20
\* and of the humidity sensor (BME280 or DHT11); start returns False when it
\* returns False and main ends (station_sender.py:298).
StartInitSensors ==
    /\ start_pc = "init_sensors"
    /\ \E ds \in BOOLEAN, hum \in BOOLEAN :
         /\ ds18_ok' = ds
         /\ humidity_ok' = hum
         /\ IF InitSensors(ds, hum)
            THEN /\ start_pc' = "connect"
                 /\ UNCHANGED <<start_ret, main_pc>>
            ELSE /\ start_pc' = "returned"
                 /\ start_ret' = "False"
                 /\ main_pc' = "exited"
    /\ UNCHANGED <<connect_called, connected, stop_event, meas_pc, batch_pc>>
    /\ UNCHANGED senderRunVars
    /\ UNCHANGED outsideStart

\* station_sender.py:101-103, MQTTwrapper.py:16-24: sender.connect() returns
\* True or, when the client's connect raised, False; start returns False
\* when it returned False.
StartConnect ==
    /\ start_pc = "connect"
    /\ connect_called' = TRUE
    /\ \E ok \in BOOLEAN :
         /\ connected' = ok
         /\ IF ok
            THEN /\ start_pc' = "measure_thread"
                 /\ UNCHANGED <<start_ret, main_pc>>
            ELSE /\ start_pc' = "returned"
                 /\ start_ret' = "False"
                 /\ main_pc' = "exited"
    /\ UNCHANGED <<ds18_ok, humidity_ok, stop_event, meas_pc, batch_pc>>
    /\ UNCHANGED senderRunVars
    /\ UNCHANGED outsideStart

\* station_sender.py:106-113: the stop event is cleared and the measurement
\* thread is started.
StartMeasureThread ==
    /\ start_pc = "measure_thread"
    /\ stop_event' = FALSE
    /\ meas_pc' = "wait"
    /\ start_pc' = "batch_thread"
    /\ UNCHANGED <<ds18_ok, humidity_ok, connect_called, connected, start_ret, batch_pc, main_pc>>
    /\ UNCHANGED senderRunVars
    /\ UNCHANGED outsideStart

\* station_sender.py:115-123, 298-299: the batch-send thread is started,
\* start returns True and main blocks in wait.
StartBatchThread ==
    /\ start_pc = "batch_thread"
    /\ batch_pc' = "wait"
    /\ start_pc' = "returned"
    /\ start_ret' = "True"
    /\ main_pc' = "wait"
    /\ UNCHANGED <<ds18_ok, humidity_ok, connect_called, connected, stop_event, meas_pc>>
    /\ UNCHANGED senderRunVars
    /\ UNCHANGED outsideStart

\* A station sender that was constructed, everything else idle.
InitStart ==
    /\ InitIngest
    /\ flush_every_s = DefaultFlushInterval
    /\ flush_batch = DefaultFlushBatch
    /\ InitReceiver
    /\ NormIdle
    /\ SenderIdle
    /\ OthersIdle

\* start and the first steps of the threads it has started.
NextStart ==
    \/ StartCall
    \/ StartInitSensors
    \/ StartConnect
    \/ StartMeasureThread
    \/ StartBatchThread
    \/ MeasWake
    \/ MeasTake
    \/ MeasPut
    \/ BatchWake

SpecStart == InitStart /\ [][NextStart]_vars

\* ---------------------------------------------------------------------
\* The single-loop sender (sender.py): sensors, MQTT sender, send loop.
\* ---------------------------------------------------------------------

MaxSends == 2

\* sender.py:119: the condition under which main prints "No sensors
\* detected" and returns, as written.
NoSensorsDetected(ds, bme, dht, combo_bme) ==
    ~ds /\ (combo_bme /\ ~bme) /\ (~combo_bme /\ ~dht)

\* sender.py:101-117: SENSOR_COMBO is read and the sensors of the combo are
\* initialised; the sensor that is not of the combo stays None.
MainInitSensors ==
    /\ sd_pc = "off"
    /\ \E combo_bme \in BOOLEAN, aux \in BOOLEAN, ds \in BOOLEAN :
         /\ use_bme' = combo_bme
         /\ sd_dht' = (~combo_bme /\ aux)
         /\ sd_bme' = (combo_bme /\ aux)
         /\ sd_ds' = ds
    /\ sd_pc' = "check"
    /\ UNCHANGED <<sd_tx_created, sd_connect_called, sd_exit, measurements,
                   sd_nsent>>
    /\ UNCHANGED outsideMain

\* sender.py:119-123: main returns when the condition holds, else it creates
\* the MQTT sender.
MainCheckSensors ==
    /\ sd_pc = "check"
    /\ IF NoSensorsDetected(sd_ds, sd_bme, sd_dht, use_bme)
       THEN /\ sd_pc' = "exited"
            /\ sd_exit' = "no_sensors"
            /\ UNCHANGED sd_tx_created
       ELSE /\ sd_pc' = "connect"
            /\ sd_tx_created' = TRUE
            /\ UNCHANGED sd_exit
    /\ UNCHANGED <<use_bme, sd_dht, sd_bme, sd_ds, sd_connect_called,
                   measurements, sd_nsent>>
    /\ UNCHANGED outsideMain

\* sender.py:124-126: tx.connect(); main returns when it returned False.
MainConnect ==
    /\ sd_pc = "connect"
    /\ sd_connect_called' = TRUE
    /\ \E ok \in BOOLEAN :
         IF ok
         THEN sd_pc' = "read" /\ UNCHANGED sd_exit
         ELSE sd_pc' = "exited" /\ sd_exit' = "connect_failed"
    /\ UNCHANGED <<use_bme, sd_dht, sd_bme, sd_ds, sd_tx_created,
                   measurements, sd_nsent>>
    /\ UNCHANGED outsideMain

\* sender.py:132-156: the sensors are read, a sensor that is None or whose
\* read fails gives None, and the measurement list is built from the values
\* that are not None.
MainRead ==
    /\ sd_pc = "read"
    /\ sd_nsent < MaxSends
    /\ \E ds_read \in BOOLEAN, aux_temp_read \in BOOLEAN, hum_read \in BOOLEAN :
         LET aux == IF use_bme THEN sd_bme ELSE sd_dht
             ds_temp == sd_ds /\ ds_read
             aux_temp == aux /\ aux_temp_read
             hum == aux /\ hum_read
             aux_id == IF use_bme THEN "bme280" ELSE "dht11"
         IN /\ ~sd_ds => ~ds_read
            /\ ~aux => (~aux_temp_read /\ ~hum_read)
            /\ measurements' =
                  (IF ds_temp
                   THEN << [type |-> "temperature", sensor_id |-> "ds18b20"] >>
                   ELSE <<>>)
                  \o (IF aux_temp
                      THEN << [type |-> "temperature", sensor_id |-> aux_id] >>
                      ELSE <<>>)
                  \o (IF hum
                      THEN << [type |-> "humidity", sensor_id |-> aux_id] >>
                      ELSE <<>>)
    /\ sd_pc' = "send"
    /\ UNCHANGED <<use_bme, sd_dht, sd_bme, sd_ds, sd_tx_created,
                   sd_connect_called, sd_exit, sd_nsent>>
    /\ UNCHANGED outsideMain

\* sender.py:158-167: a non-empty list is sent, whatever send_message
\* returns, an empty one is skipped; then main sleeps.
MainSend ==
    /\ sd_pc = "send"
    /\ sd_nsent' = IF measurements # <<>> THEN sd_nsent + 1 ELSE sd_nsent
    /\ sd_pc' = "read"
    /\ UNCHANGED <<use_bme, sd_dht, sd_bme, sd_ds, sd_tx_created,
                   sd_connect_called, sd_exit, measurements>>
    /\ UNCHANGED outsideMain

\* main of sender.py about to run, everything else idle.
InitMain ==
    /\ InitIngest
    /\ flush_every_s = DefaultFlushInterval
    /\ flush_batch = DefaultFlushBatch
    /\ InitReceiver
    /\ NormIdle
    /\ SenderIdle
    /\ OthersIdle

NextMain ==
    \/ MainInitSensors
    \/ MainCheckSensors
    \/ MainConnect
    \/ MainRead
    \/ MainSend

SpecMain == InitMain /\ [][NextMain]_vars

\* ---------------------------------------------------------------------
\* The central receiver's callback (central_receiver.py:42-90) over batch
\* payloads, single readings and payloads that are no dict.
\* ---------------------------------------------------------------------

\* central_receiver.py:46-51: the path a dict payload is given to.
Route(has_readings) == IF has_readings THEN "batch" ELSE "single"

\* A single path that inserts a ds18b20 reading whatever its temperature.
SingleInsertsAnyDs18b20(sensor_type, temperature) == sensor_type = "ds18b20"

\* central_receiver.py:80: the single path inserts into ds18b20_readings.
SingleInsertsDs18b20(sensor_type, temperature) ==
    sensor_type = "ds18b20" /\ temperature # None

\* central_receiver.py:82: the single path inserts into bme280_readings.
SingleInsertsBme280(sensor_type, temperature) ==
    ~SingleInsertsDs18b20(sensor_type, temperature) /\ sensor_type = "bme280"

\* central_receiver.py:88: `f"{temperature:.2f}" if temperature` raises for a
\* temperature that is a string.
FormatRaises(temperature) == temperature = "warm"

\* central_receiver.py:55: `except Exception` catches what the processing
\* raised; nothing of it leaves _on_message.
Escapes(raised) == FALSE

\* central_receiver.py:42-69: a payload with a "readings" list.  insert_batch
\* catches its own errors, so _process_batch counts the readings and
\* _on_message counts the message.
OnMessageBatch ==
    /\ rx_calls < MaxCalls
    /\ \E readings \in Batches : \E failAt \in 0..(Len(readings) + 1) :
         LET res == InsertBatch(ds18b20_readings, bme280_readings, readings, failAt)
         IN /\ ds18b20_readings' = res.ds
            /\ bme280_readings' = res.bme
            /\ ret_counts' = res.counts
            /\ rows_before' = <<Len(ds18b20_readings), Len(bme280_readings)>>
            /\ readings_count' = readings_count + Len(readings)
    /\ message_count' = message_count + 1
    /\ rx_calls' = rx_calls + 1
    /\ on_message' = [called |-> TRUE, has_readings |-> TRUE,
                      path |-> Route(TRUE), raised |-> FALSE,
                      escaped |-> Escapes(FALSE), sensor_type |-> None,
                      temperature |-> None]
    /\ UNCHANGED outsideOnMessage

\* central_receiver.py:46-48, 60-61: a payload whose "readings" is null.
\* insert_batch catches the TypeError of its loop and returns (0, 0); the
\* len(readings) of _process_batch raises, and the message is not counted.
OnMessageNullBatch ==
    /\ rx_calls < MaxCalls
    /\ ret_counts' = <<0, 0>>
    /\ rows_before' = <<Len(ds18b20_readings), Len(bme280_readings)>>
    /\ rx_calls' = rx_calls + 1
    /\ on_message' = [called |-> TRUE, has_readings |-> TRUE,
                      path |-> Route(TRUE), raised |-> TRUE,
                      escaped |-> Escapes(TRUE), sensor_type |-> None,
                      temperature |-> None]
    /\ UNCHANGED <<ds18b20_readings, bme280_readings, message_count,
                   readings_count>>
    /\ UNCHANGED outsideOnMessage

\* central_receiver.py:49-53, 71-90: a dict payload without "readings".  ok
\* tells whether the insert succeeds; an sqlite error leaves _process_single
\* before the reading is counted, a temperature that cannot be formatted
\* leaves it after.
OnMessageSingle ==
    /\ rx_calls < MaxCalls
    /\ \E sensor_type \in {"ds18b20", "bme280", "dht11"},
          temperature \in {None, "21.5", "warm"}, ok \in BOOLEAN :
         LET to_ds == SingleInsertsDs18b20(sensor_type, temperature)
             to_bme == SingleInsertsBme280(sensor_type, temperature)
             db_raises == (to_ds \/ to_bme) /\ ~ok
             raises == db_raises \/ FormatRaises(temperature)
         IN /\ (~to_ds /\ ~to_bme) => ok
            /\ ds18b20_readings' =
                  IF to_ds /\ ok
                  THEN Append(ds18b20_readings,
                              [sensor_id |-> "st_ds18b20",
                               temperature |-> temperature, timestamp |-> "ts"])
                  ELSE ds18b20_readings
            /\ bme280_readings' =
                  IF to_bme /\ ok
                  THEN Append(bme280_readings,
                              [sensor_id |-> "st_bme280",
                               temperature |-> temperature, humidity |-> None,
                               timestamp |-> "ts"])
                  ELSE bme280_readings
            /\ readings_count' = IF db_raises THEN readings_count
                                 ELSE readings_count + 1
            /\ message_count' = IF raises THEN message_count
                                ELSE message_count + 1
            /\ on_message' = [called |-> TRUE, has_readings |-> FALSE,
                              path |-> Route(FALSE), raised |-> raises,
                              escaped |-> Escapes(raises),
                              sensor_type |-> sensor_type,
                              temperature |-> temperature]
    /\ rx_calls' = rx_calls + 1
    /\ UNCHANGED <<ret_counts, rows_before>>
    /\ UNCHANGED outsideOnMessage

\* central_receiver.py:46-51, 73: a JSON payload that is a list: "readings"
\* is not in it, and data.get of _process_single raises AttributeError.
OnMessageNoDict ==
    /\ rx_calls < MaxCalls
    /\ rx_calls' = rx_calls + 1
    /\ on_message' = [called |-> TRUE, has_readings |-> FALSE,
                      path |-> Route(FALSE), raised |-> TRUE,
                      escaped |-> Escapes(TRUE), sensor_type |-> None,
                      temperature |-> None]
    /\ UNCHANGED dbVars
    /\ UNCHANGED outsideOnMessage

\* A central receiver that was constructed, everything else idle.
InitOnMessage ==
    /\ InitIngest
    /\ flush_every_s = DefaultFlushInterval
    /\ flush_batch = DefaultFlushBatch
    /\ InitReceiver
    /\ NormIdle
    /\ SenderIdle
    /\ OthersIdle

NextOnMessage ==
    \/ OnMessageBatch
    \/ OnMessageNullBatch
    \/ OnMessageSingle
    \/ OnMessageNoDict

SpecOnMessage == InitOnMessage /\ [][NextOnMessage]_vars

\* ---------------------------------------------------------------------
\* The merged read view (app.py:62-93).  db.get_readings is not part of
\* src/WeatherDatabase.py and is modelled from the specification: the full
\* outer join of the two series on (station_id, timestamp).
\* ---------------------------------------------------------------------

\* Rows of one series at most.
MaxSeries == 2

Stations == {"A", "B"}

\* The (station_id, timestamp) pairs a series can have a row for; a series
\* holds one row for a pair at most.
SeriesKeys == Stations \X (1..(MaxTs + 1))

SeriesSets == { s \in SUBSET SeriesKeys : Cardinality(s) <= MaxSeries }

\* A key that a dict does not hold.
Absent == "absent"

\* app.py:83-86: r.get(key) gives None for a key the row does not hold.
Get(v) == IF v = Absent THEN None ELSE v

\* The place of a station id in the order of station ids.
StationRank(s) == IF s = "A" THEN 1 ELSE 2

\* The pairs of s in the order of station and time, as a sequence.
RECURSIVE KeySeq(_)
KeySeq(s) ==
    IF s = {} THEN <<>>
    ELSE LET k == CHOOSE x \in s :
                    \A y \in s : \/ StationRank(x[1]) < StationRank(y[1])
                                 \/ (x[1] = y[1] /\ x[2] <= y[2])
         IN << k >> \o KeySeq(s \ {k})

\* The merged sample of the pair k: each metric and its sensor id are held
\* only when the metric's series has a row for k.
MergedRow(k, ts, hs) ==
    [station_id |-> k[1], timestamp |-> k[2],
     temperature |-> IF k \in ts THEN "21.5" ELSE Absent,
     temperature_sensor_id |-> IF k \in ts THEN "ds18b20" ELSE Absent,
     humidity |-> IF k \in hs THEN "40" ELSE Absent,
     humidity_sensor_id |-> IF k \in hs THEN "bme280" ELSE Absent]

\* The full outer join of the two series: the samples of the temperature
\* rows, then those of the humidity rows without a temperature row.
OuterJoin(ts, hs) ==
    LET keys == KeySeq(ts) \o KeySeq(hs \ ts)
    IN [i \in 1..Len(keys) |-> MergedRow(keys[i], ts, hs)]

\* The rows of q of the stations the request asks for.
RECURSIVE OfStation(_, _)
OfStation(q, station) ==
    IF q = <<>> THEN <<>>
    ELSE IF station \in {None, "all"} \/ Head(q).station_id = station
    THEN << Head(q) >> \o OfStation(Tail(q), station)
    ELSE OfStation(Tail(q), station)

Reverse(q) == [i \in 1..Len(q) |-> q[Len(q) + 1 - i]]

\* A response that keeps the order db.get_readings returned.
Unsorted(rows) == rows

\* app.py:79: rows.sort(key=timestamp); row put into the sorted sequence q
\* behind the rows that are not later than it (the sort is stable).
RECURSIVE InsertAsc(_, _)
InsertAsc(q, row) ==
    IF q = <<>> THEN << row >>
    ELSE IF Head(q).timestamp <= row.timestamp
    THEN << Head(q) >> \o InsertAsc(Tail(q), row)
    ELSE << row >> \o q

RECURSIVE SortAsc(_)
SortAsc(q) ==
    IF q = <<>> THEN <<>>
    ELSE InsertAsc(SortAsc(SubSeq(q, 1, Len(q) - 1)), q[Len(q)])

\* app.py:79: the rows as the response lists them.
SortByTimestamp(rows) == SortAsc(rows)

\* db.get_readings(station_id, start_time=None, end_time=now): the merged
\* samples of the station asked for, in an order the specification leaves
\* open; join order, ascending and descending time are tried.
GetReadings(ts, hs, station, order) ==
    LET rows == OfStation(OuterJoin(ts, hs), station)
    IN IF order = "join" THEN rows
       ELSE IF order = "asc" THEN SortAsc(rows)
       ELSE Reverse(SortAsc(rows))

\* app.py:80-90: one reading of the response.
Shaped(r) ==
    [station_id |-> r.station_id,
     temperature |-> Get(r.temperature),
     humidity |-> Get(r.humidity),
     temperature_sensor_id |-> Get(r.temperature_sensor_id),
     humidity_sensor_id |-> Get(r.humidity_sensor_id),
     timestamp |-> r.timestamp]

\* The two series as the ingestion has left them when the request arrives.
ReadSeries ==
    /\ read_pc = "off"
    /\ read_temps' \in SeriesSets
    /\ read_hums' \in SeriesSets
    /\ read_pc' = "ready"
    /\ UNCHANGED <<read_station, read_rows, read_shaped>>
    /\ UNCHANGED outsideRead

\* app.py:64-77: api_readings with range=all reads the station parameter and
\* calls db.get_readings.
ApiReadingsFetch ==
    /\ read_pc = "ready"
    /\ \E station \in {None, "all"} \cup Stations,
          order \in {"join", "asc", "desc"} :
         /\ read_station' = station
         /\ read_rows' = GetReadings(read_temps, read_hums, station, order)
    /\ read_pc' = "fetched"
    /\ UNCHANGED <<read_temps, read_hums, read_shaped>>
    /\ UNCHANGED outsideRead

\* app.py:79-93: the rows are sorted by timestamp and shaped.
ApiReadingsShape ==
    /\ read_pc = "fetched"
    /\ LET rows == SortByTimestamp(read_rows)
       IN read_shaped' = [i \in 1..Len(rows) |-> Shaped(rows[i])]
    /\ read_pc' = "done"
    /\ UNCHANGED <<read_temps, read_hums, read_station, read_rows>>
    /\ UNCHANGED outsideRead

\* The read path before a request, everything else idle.
InitRead ==
    /\ InitIngest
    /\ flush_every_s = DefaultFlushInterval
    /\ flush_batch = DefaultFlushBatch
    /\ InitReceiver
    /\ NormIdle
    /\ SenderIdle
    /\ OthersIdle

NextRead ==
    \/ ReadSeries
    \/ ApiReadingsFetch
    \/ ApiReadingsShape

SpecRead == InitRead /\ [][NextRead]_vars

\* ------------------------------------------- the poll loop running forever
\* ingest.py:65-99 with no interrupt: the loop of ingest.py:66 never ends and
\* the clock never stops.  Only the time elapsed since last_flush enters the
\* trigger evaluation (ingest.py:75), so the clock is kept relative to
\* last_flush, and an elapsed time beyond the longest finite interval is
\* recorded as that interval: every finite interval has then elapsed and the
\* infinite one has not.

\* The number of messages that arrive while the loop is observed.
MaxLiveMsgs == 1

\* The longest finite flush interval.
LongestInterval ==
    CHOOSE v \in FlushEveryValues \ {Infinity} :
        \A w \in FlushEveryValues \ {Infinity} : w <= v

\* The elapsed time after d more seconds of sleep and writes.
Elapsed(d) ==
    IF now - last_flush + d >= LongestInterval THEN LongestInterval
    ELSE now - last_flush + d

\* ingest.py:67-69: sleep one poll period, sample the clock, reset flush_now;
\* the time origin moves to last_flush.
TickLive ==
    /\ sched_pc = "sleep"
    /\ \E d \in {1, 2} : now' = Elapsed(d)
    /\ last_flush' = 0
    /\ flush_now' = FALSE
    /\ sched_pc' = "lock"
    /\ UNCHANGED <<flush_every_s, flush_batch, buffer, buf_lock, batch,
                   temps, hums, count_t, count_h, prod_pc, prod_rows, nmsgs,
                   temp_table, hum_table, accepted, drained, bufAtLock,
                   pendingWrites, res_t, res_h,
                   handed_t, handed_h, pendingAtStop>>
    /\ UNCHANGED rxVars
    /\ UNCHANGED outsideIngest

\* One iteration step of the poll loop, ingest.py:66-99.
PollLoop ==
    \/ TickLive
    \/ Evaluate
    \/ Copy
    \/ Clear
    \/ Release
    \/ Partition
    \/ InsertTemps
    \/ InsertHums
    \/ Stamp

NextLive ==
    \/ (nmsgs < MaxLiveMsgs /\ HandleAcquire)
    \/ HandleAppend
    \/ TickLive
    \/ Evaluate
    \/ Copy
    \/ Clear
    \/ Release
    \/ Partition
    \/ InsertTemps
    \/ InsertHums
    \/ Stamp

\* The poll loop thread is scheduled again and again and each bulk insert
\* returns (WF of the loop's steps, which exclude each other by sched_pc);
\* handle leaves its `with buf_lock:` block (ingest.py:45-46, 57-58).
SpecLive ==
    /\ Init
    /\ [][NextLive]_vars
    /\ WF_vars(PollLoop)
    /\ WF_vars(HandleAppend)

\* ---------------------------------------------------------------------
\* What the measurement loops queue: _take_readings of the station sender
\* (station_sender.py:175-203) and _take_reading of the measurement system
\* (measurement_system.py:141-165) over the values the sensors return.
\* ---------------------------------------------------------------------

\* Iterations of the two measurement loops in one run.
MaxTakes == 2

\* sensors.py:26-34: read_temperature of the DS18B20 returns a float or None;
\* 0.0 is a temperature.
DsTemps == {None, "0.0", "21.5"}

\* sensors.py:68-84, 118-131: read of the humidity sensor returns a
\* temperature and a humidity, each a float or None.
HumidTemps == {None, "0.0", "22.0"}

Humidities == {None, "0.0", "40.0"}

\* What read() gave when there is a humidity sensor, None when there is none
\* (station_sender.py:190-191, measurement_system.py:147-149).
ReadOf(humidity_sensor, v) == IF humidity_sensor THEN v ELSE None

\* station_sender.py:175-203: _take_readings, the list it returns.
TakeReadings(ds_temp, humidity_sensor, humid_temp, humidity) ==
    (IF ds_temp # None
     THEN <<Reading("st_ds18b20", "ds18b20", ds_temp, None)>>
     ELSE <<>>)
    \o (IF /\ humidity_sensor
           /\ (humid_temp # None \/ humidity # None)
        THEN <<Reading("st_bme280", "bme280", humid_temp, humidity)>>
        ELSE <<>>)

\* A _take_reading that falls back whenever the DS18B20 value is falsy:
\* `ds_temp or humid_temp`.
TakeReadingTruthy(ds_temp, humidity_sensor, humid_temp, humidity) ==
    LET ht == ReadOf(humidity_sensor, humid_temp)
        h == ReadOf(humidity_sensor, humidity)
        temperature == IF ds_temp \notin {None, "0.0"} THEN ds_temp ELSE ht
    IN IF temperature = None /\ h = None THEN <<>>
       ELSE <<[station_id |-> "st", temperature |-> temperature,
               humidity |-> h, timestamp |-> "ts"]>>

\* measurement_system.py:141-165: _take_reading; the SensorReading it returns
\* as a sequence of one, the empty sequence for None.
TakeReading(ds_temp, humidity_sensor, humid_temp, humidity) ==
    LET ht == ReadOf(humidity_sensor, humid_temp)
        h == ReadOf(humidity_sensor, humidity)
        temperature == IF ds_temp # None THEN ds_temp ELSE ht
    IN IF temperature = None /\ h = None THEN <<>>
       ELSE <<[station_id |-> "st", temperature |-> temperature,
               humidity |-> h, timestamp |-> "ts"]>>

\* station_sender.py:160-164: one iteration of the station sender's
\* _measurement_loop: every reading _take_readings returned is queued.
SenderMeasure ==
    /\ take_calls < MaxTakes
    /\ \E ds_temp \in DsTemps, humidity_sensor \in BOOLEAN,
          humid_temp \in HumidTemps, humidity \in Humidities :
         LET readings == TakeReadings(ds_temp, humidity_sensor, humid_temp, humidity)
         IN /\ sender_queue' = sender_queue \o readings
            /\ take_last' = [fn |-> "_take_readings", ds_temp |-> ds_temp,
                             humidity_sensor |-> humidity_sensor,
                             humid_temp |-> ReadOf(humidity_sensor, humid_temp),
                             humidity |-> ReadOf(humidity_sensor, humidity),
                             result |-> readings]
    /\ take_calls' = take_calls + 1
    /\ UNCHANGED system_queue
    /\ UNCHANGED outsideTake

\* measurement_system.py:130-133: one iteration of the measurement system's
\* _measurement_loop: `if reading:` queues what _take_reading returned.
SystemMeasure ==
    /\ take_calls < MaxTakes
    /\ \E ds_temp \in DsTemps, humidity_sensor \in BOOLEAN,
          humid_temp \in HumidTemps, humidity \in Humidities :
         LET reading == TakeReading(ds_temp, humidity_sensor, humid_temp, humidity)
         IN /\ system_queue' = system_queue \o reading
            /\ take_last' = [fn |-> "_take_reading", ds_temp |-> ds_temp,
                             humidity_sensor |-> humidity_sensor,
                             humid_temp |-> ReadOf(humidity_sensor, humid_temp),
                             humidity |-> ReadOf(humidity_sensor, humidity),
                             result |-> reading]
    /\ take_calls' = take_calls + 1
    /\ UNCHANGED sender_queue
    /\ UNCHANGED outsideTake

\* Both queues empty, everything else idle.
InitTake ==
    /\ InitIngest
    /\ flush_every_s = DefaultFlushInterval
    /\ flush_batch = DefaultFlushBatch
    /\ InitReceiver
    /\ NormIdle
    /\ SenderIdle
    /\ OthersIdle

NextTake ==
    \/ SenderMeasure
    \/ SystemMeasure

SpecTake == InitTake /\ [][NextTake]_vars

\* ------------------------------------------------------------ properties


\* The poll loop is between the copy and the end of its writes.
Flushing ==
    sched_pc \in {"clear", "release", "partition", "write_t", "write_h", "stamp"}

\* C1: buffer atomicity.  A drain returns exactly the rows that were in the
\* buffer when the scheduler took buf_lock and leaves the buffer empty; outside
\* the copy-then-clear step every appended row is either in a drained batch or
\* still in the buffer, never both and never neither, in the order of the
\* appends, so N appends followed by one drain give those N rows once.
C1_BufferAtomicity ==
    /\ sched_pc \in {"clear", "release"} => batch = bufAtLock
    /\ sched_pc = "release" => buffer = <<>>
    /\ sched_pc # "clear" =>
          /\ accepted = drained \o buffer
          /\ Range(drained) \cap Range(buffer) = {}
          /\ Cardinality(Range(accepted)) = Len(accepted)

\* Two single-row messages were appended and one drain returned both.
C1_Witness ==
    /\ sched_pc = "release"
    /\ nmsgs = 2
    /\ Len(batch) = 2
    /\ drained = batch
    /\ batch[1].uid = <<1, 1>>
    /\ batch[2].uid = <<2, 1>>

\* C2: no reading is lost or duplicated under store failures.  No row is
\* handed to the store twice, and once the pipeline is quiet (buffer empty,
\* poll loop asleep, handle idle) every reading that was appended to the
\* buffer is in the store.
C2_NoLossNoDuplication ==
    /\ Cardinality(Range(handed_t)) = Len(handed_t)
    /\ Cardinality(Range(handed_h)) = Len(handed_h)
    /\ (sched_pc = "sleep" /\ prod_pc = "idle" /\ buffer = <<>>) =>
          /\ Range(PartitionTemps(accepted)) \subseteq Range(temp_table)
          /\ Range(PartitionHums(accepted)) \subseteq Range(hum_table)

\* C3: shutdown drains fully.  Once the poll loop has been stopped, every row
\* that was pending at the stop has left the buffer in a drained batch.
C3_ShutdownDrains ==
    sched_pc = "stopped" =>
        \A r \in Range(pendingAtStop) :
            r \in Range(drained) /\ r \notin Range(buffer)

C5_TimeTrigger ==
    /\ (sched_pc = "decided" /\ flush_every_s > 0 /\ Len(buffer) < flush_batch) =>
          (flush_now <=> (now - last_flush >= flush_every_s /\ buffer # <<>>))
    /\ (sched_pc = "decided" /\ flush_batch >= 1 /\ buffer = <<>>) => ~flush_now
    /\ (Flushing /\ flush_batch >= 1) => batch # <<>>

\* The first tick at which the interval has elapsed, the count not reached.
C5_Witness ==
    /\ sched_pc = "decided"
    /\ flush_every_s = 2
    /\ flush_batch = HugeBatch
    /\ now - last_flush = 2
    /\ buffer # <<>>
    /\ flush_now

\* C6: eager mode.  With a zero or negative flush interval every poll tick
\* that finds the buffer non-empty flushes, whatever the batch-size.
C6_EagerMode ==
    (sched_pc = "decided" /\ flush_every_s <= 0 /\ buffer # <<>>) => flush_now

\* A negative interval, a batch-size never reached, one entry pending.
C6_Witness ==
    /\ sched_pc = "decided"
    /\ flush_every_s < 0
    /\ flush_batch = HugeBatch
    /\ Len(buffer) = 1
    /\ flush_now

\* C7: serialized flush.  The poll loop starts a tick, takes the lock or
\* drains only when both bulk inserts of the previous batch have been
\* attempted; while a batch is in flight exactly its own inserts are open.
C7_SerializedFlush ==
    /\ sched_pc \in {"sleep", "lock", "decided"} => pendingWrites = 0
    /\ sched_pc \in {"clear", "release", "partition", "write_t"} => pendingWrites = 2
    /\ sched_pc = "write_h" => pendingWrites = 1
    /\ sched_pc = "stamp" => pendingWrites = 0

\* A second batch is being drained after a first was written.
C7_Witness ==
    /\ sched_pc = "clear"
    /\ drained # <<>>
    /\ batch # <<>>
    /\ handed_t \o handed_h # <<>>
    /\ pendingWrites = 2

RowHasValue(r) ==
    IF r.measurement_type \in {"temperature", "humidity"}
    THEN r.value # None
    ELSE r.temperature # None \/ r.humidity # None

\* C10: buffer value invariant.  Every entry of the staging buffer carries a
\* metric value.
C10_BufferValueInvariant ==
    \A i \in DOMAIN buffer : RowHasValue(buffer[i])

\* C9: the batch write returns per-kind inserted-row counts.  The pair
\* insert_batch returns is the number of rows the call added to each table.
C9_ReturnedCountsArePersisted ==
    /\ ret_counts[1] = Len(ds18b20_readings) - rows_before[1]
    /\ ret_counts[2] = Len(bme280_readings) - rows_before[2]

\* The poll loop is inside one of the two bulk inserts.
Writing == sched_pc \in {"write_t", "write_h"}

C12_LockFreeDuringWrite ==
    Writing =>
        /\ buf_lock # "scheduler"
        /\ Range(buffer) \cap Range(batch) = {}
        /\ \A r \in Range(buffer) :
              \A s \in Range(temps) \cup Range(hums) : s.uid # r.uid

\* A producer holds buf_lock with its rows while the poll loop is inside
\* insert_temps_bulk of a non-empty batch.
C12_Witness ==
    /\ sched_pc = "write_t"
    /\ batch # <<>>
    /\ buf_lock = "producer"
    /\ prod_rows # <<>>

\* C15: malformed inbound payloads are dropped and ingestion continues.  A
\* payload that is not valid JSON does not reach the callback, leaves the
\* buffer as it was and leaves the arrival path ready; while the receiver is
\* connected the next message is delivered to the callback.
C15_MalformedDropped ==
    /\ [][nmalformed' # nmalformed =>
            /\ ncallbacks' = ncallbacks
            /\ buffer' = buffer
            /\ accepted' = accepted
            /\ prod_rows' = prod_rows
            /\ prod_pc' = "idle"]_vars
    /\ []((nmalformed > 0 /\ prod_pc = "idle" /\ buf_lock = "free"
             /\ sched_pc # "stopped" /\ nmsgs < MaxMsgs)
          => ENABLED HandleAcquire)

\* The first payload was malformed and the second message's row is in the
\* buffer.
C15_Witness ==
    /\ nmalformed = 1
    /\ nmsgs = 2
    /\ ncallbacks = 1
    /\ \E r \in Range(buffer) : r.uid[1] = 2

\* The rows handed to a bulk insert that failed.
FailedRows ==
    { r \in Range(handed_t) : r \notin Range(temp_table) } \cup
    { r \in Range(handed_h) : r \notin Range(hum_table) }

\* C17: a failed store write is not re-queued.  A row of a bulk insert that
\* failed is not in the buffer again, is not on its way into the buffer, and
\* was handed to the store once.
C17_FailedWriteNotRequeued ==
    /\ \A r \in FailedRows :
          \A b \in Range(buffer) \cup Range(prod_rows) : b.uid # r.uid
    /\ \A i, j \in DOMAIN handed_t :
          (i # j /\ handed_t[i] \in FailedRows) => handed_t[i] # handed_t[j]
    /\ \A i, j \in DOMAIN handed_h :
          (i # j /\ handed_h[i] \in FailedRows) => handed_h[i] # handed_h[j]

\* The first message's temperature insert failed; a later flush has handed
\* the second message's row to the store and the loop is asleep again.
C17_Witness ==
    /\ sched_pc = "sleep"
    /\ buffer = <<>>
    /\ \E r \in Range(handed_t) : r.uid[1] = 1 /\ r \notin Range(temp_table)
    /\ \E r \in Range(temp_table) : r.uid[1] = 2

\* The single-message run has gone through handle.
NormHandled == norm_pc \in {"handled", "partitioned"}

\* C16: a message with no station id is rejected.  handle buffers no row for
\* it, and no row handle appends or the partition hands on has an absent
\* station_id.
C16_MissingStationRejected ==
    NormHandled =>
        /\ norm_msg.station_id = None => norm_rows = <<>>
        /\ \A r \in Range(norm_rows) \cup Range(norm_temps) \cup Range(norm_hums) :
              r.station_id # None

\* A sensor id was supplied: the key is present with a non-empty value.
Given(x) == x \notin {None, ""}

\* The sensor id of a flat reading's metric: the metric's own id, else the
\* message's, else the station's.
FlatSensorId(own, msg) ==
    IF Given(own) THEN own
    ELSE IF Given(msg.sensor_id) THEN msg.sensor_id
    ELSE msg.station_id

\* The sensor id of a measurement-list entry: its own, else the station's.
EntrySensorId(m, msg) ==
    IF Given(m.sensor_id) THEN m.sensor_id ELSE msg.station_id

\* C18: sensor-id default.  Each tuple handed to the store carries the sensor
\* id that was supplied for it and the station id when none was: for a flat
\* reading temperature_sensor_id / humidity_sensor_id, else the message's
\* sensor_id, else station_id; for a measurement-list entry the entry's
\* sensor_id, else station_id.
C18_SensorIdDefault ==
    norm_pc = "partitioned" =>
        IF norm_msg.hasList
        THEN \A r \in Range(norm_temps) \cup Range(norm_hums) :
                r.sensor_id =
                    EntrySensorId(norm_msg.measurements[r.uid[2]], norm_msg)
        ELSE /\ \A r \in Range(norm_temps) :
                   r.sensor_id =
                       FlatSensorId(norm_msg.temperature_sensor_id, norm_msg)
             /\ \A r \in Range(norm_hums) :
                   r.sensor_id =
                       FlatSensorId(norm_msg.humidity_sensor_id, norm_msg)

\* A flat reading with both metrics, no sensor id for the temperature and one
\* for the humidity: the temperature tuple carries the station id and the
\* humidity tuple the supplied id.
C18_Witness ==
    /\ norm_pc = "partitioned"
    /\ ~norm_msg.hasList
    /\ norm_msg.sensor_id = None
    /\ norm_msg.temperature_sensor_id = None
    /\ norm_msg.humidity_sensor_id = "hx"
    /\ Len(norm_temps) = 1 /\ norm_temps[1].sensor_id = "st"
    /\ Len(norm_hums) = 1 /\ norm_hums[1].sensor_id = "hx"

\* The entries of a measurement list that are dicts of the given type.
EntriesOfType(ms, type) ==
    { i \in DOMAIN ms : ms[i].isdict /\ ms[i].type = type }

\* The message carries one temperature value and one humidity value, in the
\* way of its shape.
CarriesBoth(msg) ==
    IF msg.hasList
    THEN /\ Cardinality(EntriesOfType(msg.measurements, "temperature")) = 1
         /\ Cardinality(EntriesOfType(msg.measurements, "humidity")) = 1
         /\ \A i \in DOMAIN msg.measurements :
               msg.measurements[i].type \in {"temperature", "humidity"}
                  => msg.measurements[i].value # None
    ELSE IF "readings" \in DOMAIN msg
    THEN /\ Len(msg.readings) = 1
         /\ msg.readings[1].sensor_type = "bme280"
         /\ msg.readings[1].temperature # None
         /\ msg.readings[1].humidity # None
    ELSE msg.temperature # None /\ msg.humidity # None

\* C19: normalization completeness.  A flat reading, a measurement list or a
\* batch wrapper that carries both a temperature and a humidity value gives
\* exactly two tuples to the store, one temperature and one humidity, with
\* the message's station_id and one timestamp.
C19_NormalizationCompleteness ==
    (norm_pc = "partitioned" /\ CarriesBoth(norm_msg)) =>
        /\ Len(norm_temps) = 1
        /\ Len(norm_hums) = 1
        /\ norm_temps[1].station_id = norm_hums[1].station_id
        /\ norm_temps[1].timestamp = norm_hums[1].timestamp

\* The message has no temperature and no humidity value, in the way of its
\* shape (flat reading or measurement list).
MissingBoth(msg) ==
    /\ "readings" \notin DOMAIN msg
    /\ IF msg.hasList
       THEN \A i \in DOMAIN msg.measurements :
               (msg.measurements[i].isdict /\
                msg.measurements[i].type \in {"temperature", "humidity"})
                  => msg.measurements[i].value = None
       ELSE msg.temperature = None /\ msg.humidity = None

\* C20: a message missing both temperature and humidity produces zero tuples.
\* handle appends nothing to the buffer for it and the partition gives
\* neither bulk insert a row of it.
C20_MissingBothProducesNothing ==
    (NormHandled /\ MissingBoth(norm_msg)) =>
        /\ norm_rows = <<>>
        /\ norm_temps = <<>>
        /\ norm_hums = <<>>

\* How often x occurs in the sequence q.
Count(q, x) == Cardinality({ i \in DOMAIN q : q[i] = x })

\* The readings of all published batches, in order.
RECURSIVE Flatten(_)
Flatten(bs) == IF bs = <<>> THEN <<>> ELSE Head(bs) \o Flatten(Tail(bs))

\* The readings some _send_batch has drained and not yet sent or put back.
InFlight == sb_readings["batch"] \o sb_readings["main"]

\* C13: station-side re-queue on transport failure.  _batches_sent counts the
\* batches send_message returned True for and nothing else; a _send_batch
\* that has returned holds no reading; and every reading taken is in exactly
\* one place: waiting to be put, on the queue, drained by a _send_batch that
\* is still running, or in one successfully sent batch, once.
C13_RequeueOnFailure ==
    /\ batches_sent = Len(published)
    /\ \A t \in SendCallers : sb_pc[t] = "idle" => sb_readings[t] = <<>>
    /\ \A x \in 1..ntaken :
          Count(meas_readings, x) + Count(reading_queue, x)
             + Count(InFlight, x) + Count(Flatten(published), x) = 1

\* Reading 1 was put back after a failed send and is now in a sent batch, no
\* _send_batch running.
C13_Witness ==
    /\ 1 \in requeued
    /\ Count(Flatten(published), 1) = 1
    /\ \A t \in SendCallers : sb_pc[t] = "idle"

\* C14: transport failure is surfaced as a boolean.  No exception leaves
\* send_message; it returns True exactly when the client is connected,
\* nothing raised and publish reported success; when it returns False no
\* payload was published.
C14_SendMessageBoolean ==
    /\ \A t \in SendCallers : sb_pc[t] # "raised"
    /\ last_send.called =>
          /\ ~last_send.raised
          /\ last_send.ret <=>
                (last_send.conn /\ last_send.exc = "none"
                   /\ last_send.rc = "MQTT_ERR_SUCCESS")
          /\ ~last_send.ret => ~last_send.pub

\* A batch was sent successfully earlier and the last call returned False
\* because publish raised.
C14_Witness ==
    /\ published # <<>>
    /\ last_send.called
    /\ last_send.exc = "publish"
    /\ ~last_send.ret

\* The place of the row with identity u in the history of appends.
AppendIndex(u) == CHOOSE i \in DOMAIN accepted : accepted[i].uid = u

\* The rows of q stand in the order in which they were appended.
InAppendOrder(q) ==
    \A i, j \in DOMAIN q :
        i < j => AppendIndex(q[i].uid) < AppendIndex(q[j].uid)

\* C21: arrival order within a batch.  The drained batch lists its rows in
\* the order of their appends, each sub-batch keeps that order, and the rows
\* of one batch were all appended before the rows of the next: the drained
\* rows are, batch after batch, a prefix of the history of appends, and each
\* kind's rows reach the store in append order.
C21_ArrivalOrder ==
    /\ Flushing => InAppendOrder(batch)
    /\ InAppendOrder(temps)
    /\ InAppendOrder(hums)
    /\ Len(drained) <= Len(accepted)
    /\ drained = SubSeq(accepted, 1, Len(drained))
    /\ InAppendOrder(handed_t)
    /\ InAppendOrder(handed_h)

\* One batch of two messages' rows has been partitioned: both temperature
\* rows are in the sub-batch, the first message's first.
C21_Witness ==
    /\ sched_pc = "write_t"
    /\ Len(batch) = 2
    /\ Len(temps) = 2
    /\ temps[1].uid[1] = 1
    /\ temps[2].uid[1] = 2

\* The sequence p is the beginning of the sequence q.
IsPrefix(p, q) == Len(p) <= Len(q) /\ p = SubSeq(q, 1, Len(p))

\* The rows of table stamped before cutoff, and the others, in table order.
RowsBefore(table, cutoff) ==
    SelectRows(table, [r \in Range(table) |-> r.timestamp < cutoff])

RowsFrom(table, cutoff) ==
    SelectRows(table, [r \in Range(table) |-> r.timestamp >= cutoff])

\* C24: stored rows are append-only.  A step of an insert operation or of a
\* read leaves every row that was in a table where and as it was; a call of
\* delete_readings_older_than(cutoff) that returns leaves in each table
\* exactly the rows with timestamp >= cutoff, unchanged and in their order,
\* and returns how many rows with timestamp < cutoff each table held.
C24_AppendOnly ==
    [][ LET pruning == store_op'.op = "delete_readings_older_than"
            cutoff == store_op'.arg1
        IN /\ ~pruning =>
                /\ IsPrefix(ds18b20_readings, ds18b20_readings')
                /\ IsPrefix(bme280_readings, bme280_readings')
           /\ (pruning /\ store_op'.arg3 /\ cutoff # NoTime) =>
                /\ ds18b20_readings' = RowsFrom(ds18b20_readings, cutoff)
                /\ bme280_readings' = RowsFrom(bme280_readings, cutoff)
                /\ deleted' = << Len(RowsBefore(ds18b20_readings, cutoff)),
                                 Len(RowsBefore(bme280_readings, cutoff)) >>
           /\ (pruning /\ ~store_op'.arg3) =>
                UNCHANGED <<ds18b20_readings, bme280_readings>> ]_vars

\* A pruning call has returned having removed a ds18b20 row and kept a row
\* stamped with the cutoff itself.
C24_Witness ==
    /\ store_op.op = "delete_readings_older_than"
    /\ store_op.arg3
    /\ deleted[1] >= 1
    /\ \E i \in DOMAIN ds18b20_readings :
          ds18b20_readings[i].timestamp = store_op.arg1

\* The rows of table a read of one sensor's readings is to return when each
\* bound that is supplied is applied and an absent bound is not.
WithinSupplied(table, sensor_id, lower, upper) ==
    SelectRows(table,
               [r \in Range(table) |->
                   /\ r.sensor_id = sensor_id
                   /\ (lower # NoTime => lower <= r.timestamp)
                   /\ (upper # NoTime => r.timestamp <= upper)])

C23_BothBounds ==
    (/\ store_op.op \in {"ds18b20_readings", "bme280_readings"}
     /\ store_op.arg2 # NoTime
     /\ store_op.arg3 # NoTime) =>
        range_result =
            SortDesc(WithinSupplied(IF store_op.op = "ds18b20_readings"
                                    THEN ds18b20_readings ELSE bme280_readings,
                                    store_op.arg1, store_op.arg2, store_op.arg3))

\* Every row of the sub-batch q carries a value.
AllValued(q) == \A i \in DOMAIN q : q[i].value # None

\* C25: no row with an absent value reaches the store.  Every row of the two
\* sub-batches the partition builds for insert_temps_bulk and
\* insert_hums_bulk carries a value, whether it came from a typed
\* measurement list or from a flat reading.
C25_NoAbsentValueStored ==
    norm_pc = "partitioned" => AllValued(norm_temps) /\ AllValued(norm_hums)

\* The part of C25 about rows that came from a flat reading.
C25_FlatRowsValued ==
    (norm_pc = "partitioned" /\ "readings" \notin DOMAIN norm_msg
        /\ ~norm_msg.hasList) =>
        AllValued(norm_temps) /\ AllValued(norm_hums)

\* The readings the measurement thread has put on the queue so far.
PutOnQueue == { x \in 1..ntaken : Count(meas_readings, x) = 0 }

\* C26: stop sends any remaining readings.  Once stop has returned the queue
\* is empty and every reading the measurement thread put on it is in a
\* batch that was sent.
C26_StopSendsRemaining ==
    main_pc = "stopped" =>
        /\ reading_queue = <<>>
        /\ \A x \in PutOnQueue : Count(Flatten(published), x) = 1

\* C26 for the runs in which no send_message call has failed.
C26_WhenEverySendSucceeds ==
    (main_pc = "stopped" /\ requeued = {}
        /\ \A t \in SendCallers : sb_pc[t] # "requeue") =>
        /\ reading_queue = <<>>
        /\ \A x \in PutOnQueue : Count(Flatten(published), x) = 1

\* The readings the measurement system's thread has put on its queue so far.
MsQueued == { x \in 1..ms_ntaken : x # ms_reading }

\* C27: MeasurementSystem.stop flushes remaining readings.  Once stop has
\* returned the reading queue is empty and every reading that was queued is
\* in a batch that was passed to _batch_insert_readings.
C27_StopFlushesRemaining ==
    ms_main_pc = "stopped" =>
        /\ ms_reading_queue = <<>>
        /\ \A x \in MsQueued : Count(Flatten(ms_inserted), x) = 1

\* A thread of the station sender has been started.
ThreadStarted == meas_pc # "off" \/ batch_pc # "off"

\* C28: start-up ordering of the station sender.  start returns True, and a
\* thread is started, only if a sensor initialised and the connect
\* succeeded, and with True returned both threads run; without a sensor
\* start returns False, has not connected and has started no thread; with a
\* failed connect it returns False and has started no thread.
C28_StartupOrdering ==
    /\ start_ret = "True" =>
          /\ ds18_ok \/ humidity_ok
          /\ connected
          /\ meas_pc # "off" /\ batch_pc # "off"
    /\ ThreadStarted => (ds18_ok \/ humidity_ok) /\ connected
    /\ (start_pc \notin {"off", "init_sensors"} /\ ~ds18_ok /\ ~humidity_ok) =>
          /\ start_pc = "returned"
          /\ start_ret = "False"
          /\ ~connect_called
          /\ ~ThreadStarted
    /\ (connect_called /\ ~connected) =>
          /\ start_pc = "returned"
          /\ start_ret = "False"
          /\ ~ThreadStarted

\* start found the DS18B20 only, connected and returned True, and the
\* measurement thread has queued a reading.
C28_Witness ==
    /\ start_ret = "True"
    /\ ds18_ok /\ ~humidity_ok
    /\ connected
    /\ batch_pc # "off"
    /\ reading_queue # <<>>

\* start found no sensor and has returned False.
C28_WitnessNoSensor ==
    /\ start_pc = "returned"
    /\ ~ds18_ok /\ ~humidity_ok
    /\ start_ret = "False"

\* main of sender.py is past its sensor check and neither the DS18B20 nor
\* the auxiliary sensor of the configured combo initialised.
NoSensorOfCombo ==
    /\ sd_pc \notin {"off", "check"}
    /\ ~sd_ds
    /\ IF use_bme THEN ~sd_bme ELSE ~sd_dht

\* C29: sender.py exits when no sensors are detected.  With neither the
\* DS18B20 nor the auxiliary sensor of the combo initialised main has
\* returned for that reason, and has neither created nor connected the MQTT
\* sender, for both values of the combo.
C29_ExitsWithoutSensors ==
    NoSensorOfCombo =>
        /\ sd_pc = "exited"
        /\ sd_exit = "no_sensors"
        /\ ~sd_tx_created
        /\ ~sd_connect_called

\* main of sender.py never returns for lack of sensors.
C29_NeverExitsForSensors == sd_exit # "no_sensors"

\* C30: central receiver message handling.  Every call of _on_message gives
\* a payload with "readings" to the batch path and any other to the
\* single-reading path, lets no exception escape, and counts the message
\* only when the processing raised nothing; on the single path a row is
\* added to ds18b20_readings only for a ds18b20 reading with a temperature,
\* to bme280_readings only for a bme280 reading, at most one row in all, and
\* for an unknown sensor_type none.
C30_OnMessageHandling ==
    [][ /\ on_message'.called
        /\ on_message'.path = (IF on_message'.has_readings THEN "batch"
                                ELSE "single")
        /\ ~on_message'.escaped
        /\ message_count' # message_count =>
              (message_count' = message_count + 1 /\ ~on_message'.raised)
        /\ on_message'.path = "single" =>
              /\ ds18b20_readings' # ds18b20_readings =>
                    /\ on_message'.sensor_type = "ds18b20"
                    /\ on_message'.temperature # None
                    /\ Len(ds18b20_readings') = Len(ds18b20_readings) + 1
                    /\ bme280_readings' = bme280_readings
              /\ bme280_readings' # bme280_readings =>
                    /\ on_message'.sensor_type = "bme280"
                    /\ Len(bme280_readings') = Len(bme280_readings) + 1
              /\ on_message'.sensor_type \notin {"ds18b20", "bme280"} =>
                    UNCHANGED <<ds18b20_readings, bme280_readings>> ]_vars

\* A batch was counted, then a single ds18b20 reading with a temperature
\* that cannot be formatted was inserted and its message not counted.
C30_Witness ==
    /\ rx_calls = 2
    /\ message_count = 1
    /\ on_message.path = "single"
    /\ on_message.sensor_type = "ds18b20"
    /\ on_message.raised
    /\ Len(ds18b20_readings) >= 2

\* The pairs of either series that the request's station parameter selects.
Requested ==
    { k \in read_temps \cup read_hums :
        read_station \in {None, "all"} \/ k[1] = read_station }

HandedOver(n) ==
    /\ Len(drained) >= n
    /\ pendingWrites = 0

\* C31: eventual flush.  With a finite positive or an eager (zero or negative)
\* flush interval and batch-size >= 1, the poll loop running forever and each
\* bulk insert returning, every row appended to the buffer is eventually
\* drained and handed to the bulk inserts; with the infinite interval and a
\* batch-size that the pending rows never reach, nothing is ever drained.
C31_EventualFlush ==
    /\ \A n \in 1..(2 * MaxLiveMsgs) :
          (flush_every_s # Infinity /\ flush_batch >= 1 /\ Len(accepted) >= n)
              ~> HandedOver(n)
    /\ [](flush_every_s = Infinity /\ flush_batch = HugeBatch => drained = <<>>)

\* One row waited below the batch-size until the interval had elapsed and
\* both bulk inserts of its batch have returned.
C31_Witness ==
    /\ flush_every_s = LongestInterval
    /\ flush_batch = 2
    /\ Len(accepted) = 1
    /\ HandedOver(1)
    /\ sched_pc = "sleep"

\* Rows stay in the buffer with the infinite interval and the batch-size out
\* of reach, the poll loop having ticked past them.
C31_WitnessStarved ==
    /\ flush_every_s = Infinity
    /\ flush_batch = HugeBatch
    /\ Len(buffer) = 2 * MaxLiveMsgs
    /\ sched_pc = "decided"
    /\ ~flush_now

\* The poll loop thread takes a step.
PollStep == sched_pc' # sched_pc

\* C33: a poll tick on which no trigger fires changes nothing.  Its steps,
\* from the sleep to the end of the with-block, leave the buffer and
\* last_flush as they are, issue no bulk insert and go back to sleep;
\* last_flush changes only at the end of a tick that flushed and is then the
\* time that tick sampled.
C33_IdleTickFrame ==
    [][/\ (PollStep /\ sched_pc \in {"sleep", "lock", "decided"} /\ ~flush_now') =>
            /\ buffer' = buffer
            /\ last_flush' = last_flush
            /\ drained' = drained
            /\ handed_t' = handed_t /\ handed_h' = handed_h
            /\ temp_table' = temp_table /\ hum_table' = hum_table
            /\ pendingWrites' = 0
       /\ (PollStep /\ sched_pc = "decided" /\ ~flush_now) =>
            sched_pc' \in {"sleep", "stopped"}
       /\ last_flush' # last_flush =>
            /\ sched_pc = "stamp" /\ flush_now
            /\ last_flush' = now
       /\ now' # now => sched_pc = "sleep"
      ]_vars

\* A tick found a row pending, below the batch-size and before the interval
\* had elapsed, and no trigger fired.
C33_Witness ==
    /\ sched_pc = "decided"
    /\ ~flush_now
    /\ buffer # <<>>
    /\ flush_every_s = 2
    /\ now - last_flush = 1

\* A tick that flushed has set last_flush to the time it sampled.
C33_WitnessStamped ==
    /\ sched_pc = "sleep"
    /\ drained # <<>>
    /\ last_flush = now
    /\ now = MaxTime

\* The ds18b20 readings of a batch that have a temperature, as table rows.
RECURSIVE EligibleDs18b20(_)
EligibleDs18b20(readings) ==
    IF readings = <<>> THEN <<>>
    ELSE LET r == Head(readings)
         IN (IF r.sensor_type = "ds18b20" /\ r.temperature # None
             THEN <<[sensor_id |-> r.sensor_id, temperature |-> r.temperature,
                     timestamp |-> r.timestamp]>>
             ELSE <<>>) \o EligibleDs18b20(Tail(readings))

\* The bme280 readings of a batch, as table rows.
RECURSIVE EligibleBme280(_)
EligibleBme280(readings) ==
    IF readings = <<>> THEN <<>>
    ELSE LET r == Head(readings)
         IN (IF r.sensor_type = "bme280"
             THEN <<[sensor_id |-> r.sensor_id, temperature |-> r.temperature,
                     humidity |-> r.humidity, timestamp |-> r.timestamp]>>
             ELSE <<>>) \o EligibleBme280(Tail(readings))

\* C32: insert_batch is all-or-nothing.  From every store the receiver
\* reaches, for every batch and every execute or commit that raises: the call
\* either appended every ds18b20 reading with a temperature and every bme280
\* reading of the batch, or it raised and left both tables as they were; the
\* exception does not leave insert_batch and the connection is closed.
C32_AllOrNothing ==
    \A readings \in Batches : \A failAt \in 0..(Len(readings) + 1) :
        LET res == InsertBatch(ds18b20_readings, bme280_readings, readings, failAt)
        IN /\ ~res.raised =>
                /\ res.ds = ds18b20_readings \o EligibleDs18b20(readings)
                /\ res.bme = bme280_readings \o EligibleBme280(readings)
           /\ res.raised =>
                /\ res.ds = ds18b20_readings
                /\ res.bme = bme280_readings
           /\ ~res.escaped
           /\ res.closed

\* A batch whose second insert raised after the first had been executed: one
\* ds18b20 insert is counted and both tables are as before the call, which
\* followed a call that stored a row.
C32_Witness ==
    /\ message_count = 2
    /\ ret_counts = <<1, 0>>
    /\ rows_before = <<Len(ds18b20_readings), Len(bme280_readings)>>
    /\ Len(ds18b20_readings) + Len(bme280_readings) = 1

\* The readings held by the measurement system: on the queue or drained by a
\* _flush_queue that has not yet passed them on.
MsHeld ==
    Range(ms_reading_queue)
        \cup UNION { Range(ms_flush_readings[t]) : t \in FlushCallers }

\* C36: the batch-insert statistic counts only successful inserts.
\* _inserts_count is the number of batches that were committed, and every
\* reading that was queued is committed or still held.
C36_CountsCommittedInserts ==
    /\ ms_inserts_count = Len(ms_committed)
    /\ \A x \in MsQueued : x \in Range(Flatten(ms_committed)) \/ x \in MsHeld

\* C37: every reading placed on a station queue carries a non-null metric.
\* The station sender queues a ds18b20 reading exactly when the DS18B20 gave
\* a temperature and a bme280 reading exactly when the humidity sensor gave a
\* temperature or a humidity; the measurement system queues no reading
\* exactly when no sensor gave a value, and its reading's temperature is the
\* DS18B20's unless that is absent, and then the humidity sensor's.
C37_QueuedReadingsHaveAMetric ==
    /\ \A r \in Range(sender_queue) :
          \/ r.sensor_type = "ds18b20" /\ r.temperature # None
          \/ r.sensor_type = "bme280" /\ (r.temperature # None \/ r.humidity # None)
    /\ \A r \in Range(system_queue) : r.temperature # None \/ r.humidity # None
    /\ take_last.fn = "_take_readings" =>
          /\ (\E r \in Range(take_last.result) : r.sensor_type = "ds18b20")
                <=> take_last.ds_temp # None
          /\ (\E r \in Range(take_last.result) : r.sensor_type = "bme280")
                <=> (take_last.humid_temp # None \/ take_last.humidity # None)
    /\ take_last.fn = "_take_reading" =>
          /\ take_last.result = <<>> <=>
                /\ take_last.ds_temp = None
                /\ take_last.humid_temp = None
                /\ take_last.humidity = None
          /\ \A r \in Range(take_last.result) :
                /\ take_last.ds_temp # None => r.temperature = take_last.ds_temp
                /\ take_last.ds_temp = None => r.temperature = take_last.humid_temp
                /\ r.humidity = take_last.humidity

\* The DS18B20 read 0.0 and the humidity sensor 22.0: the queued reading has
\* the DS18B20's 0.0; the station sender had queued a bme280 reading with a
\* humidity and no temperature.
C37_Witness ==
    /\ take_last.fn = "_take_reading"
    /\ take_last.ds_temp = "0.0"
    /\ take_last.humid_temp = "22.0"
    /\ Len(system_queue) = 1
    /\ system_queue[1].temperature = "0.0"
    /\ Len(sender_queue) = 1
    /\ sender_queue[1].temperature = None
    /\ sender_queue[1].humidity = "40.0"

C35_NoReadingAfterStopSystem ==
    [][/\ (ms_stop_event /\ ms_meas_pc' = "reading") => ms_meas_pc = "reading"
       /\ (ms_stop_event /\ ms_meas_pc = "wait" /\ ms_meas_pc' # "wait") =>
            ms_meas_pc' = "done"
       /\ (ms_stop_event /\ ms_batch_pc = "wait" /\ ms_batch_pc' # "wait") =>
            ms_batch_pc' = "done"
       /\ ms_meas_pc = "done" =>
            /\ ms_meas_pc' = "done"
            /\ ms_ntaken' = ms_ntaken
            /\ ms_readings_count' = ms_readings_count
       /\ ms_batch_pc = "done" => ms_batch_pc' = "done"
       /\ (ms_stop_event /\ ms_ntaken' # ms_ntaken) =>
            /\ ms_meas_pc = "reading"
            /\ ms_meas_pc' # "reading"
       /\ (ms_stop_event /\ ms_readings_count' # ms_readings_count) =>
            /\ ms_meas_pc = "put"
            /\ ms_meas_pc' = "wait"
      ]_vars

MsSecondStop == ms_main_pc \in {"final_flush2", "cleanup2"}

\* C34: stop is idempotent with respect to data, measurement system.  The
\* second call of stop passes no reading to an insert, so the committed
\* readings are those of the first call, and no reading is inserted twice.
C34_StopIdempotent ==
    [][/\ (MsSecondStop /\ ms_flush_pc'["main"] # ms_flush_pc["main"]) =>
            /\ ms_inserted' = ms_inserted
            /\ ms_committed' = ms_committed
       /\ \A x \in 1..ms_ntaken : Count(Flatten(ms_inserted'), x) <= 1
      ]_vars

\* The second call of stop inserts no reading a second time.
C34_NoSecondInsert ==
    \A x \in 1..ms_ntaken : Count(Flatten(ms_inserted), x) <= 1

\* main is in its second call of MeasurementSender.stop.
SecondStop == main_pc \in {"final_send2", "disconnect2"}

\* The station sender's half of C34: the second call of stop publishes
\* nothing, the readings it drains go back on the queue, and no reading is
\* published twice.
C34_StopIdempotentSender ==
    [][/\ (SecondStop /\ sb_pc'["main"] # sb_pc["main"]) =>
            /\ published' = published
            /\ batches_sent' = batches_sent
       /\ (SecondStop /\ main_pc' = "disconnect2") =>
            sb_readings'["main"] = <<>>
       /\ \A x \in 1..ntaken : Count(Flatten(published'), x) <= 1
      ]_vars

\* The second stop found a reading queued after the first and put it back.
C34_SenderWitness ==
    /\ main_pc = "stopped2"
    /\ reading_queue = <<1>>
    /\ requeued = {1}
    /\ published = <<>>

====
